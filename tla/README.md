# opx-mlnx-sdi-sys: models, checks and proofs

`opx-mlnx-sdi-sys` is the System Device Interface library of OPX for Mellanox
switches. It reads two XML files that describe the platform, keeps a list of
*entities* (system board, fan trays, PSU trays) and their *resources* (fans,
thermal sensors, LEDs, entity info, transceivers), and answers calls on them by
reading and writing sysfs attributes and, for transceivers, the MCIA register
of the switch. It takes no lock anywhere: callers in several threads, the
kernel's drivers and the operator who swaps devices all meet in these
attributes and registers, and, for the thermal thresholds, in plain memory.

This directory holds TLA+ models of that code, TLC runs, and TLAPS proofs.
`PROJECT.json` lists them for tools: the components, the runs, the map from
every definition to its lines of source, the mutants that show each property
can fail, the hazards and the theorems.

## 1. Inventory

Paths are below `src/` of the repository.

| Component | Source | State it keeps | Operations |
|---|---|---|---|
| sysfs attribute helpers | `utils/sdi_sysfs_utils.c` | none; the attribute and the open `FILE` of each call | `sdi_sysfs_attr_{str,int,uint}_get`, `{str,uint}_set`, `size_get`, `data_get` |
| entity framework and start | `sdi_entity_framework.c`, `sdi_startup.c` | `entity_list`, each entity with its list of resources | `sdi_sys_init`: register every entity, then initialise every entity; lookups, counts, iterators |
| entity queries, reset and power, LEDs | `sdi_entity.c`, `sdi_entity_reset.c`, `sdi_led.c` | settings from registration, never changed after | presence, fault, PSU output power; reset, power control; LED on, off |
| fan | `sdi_fan.c` | settings | `max_speed_get`, `speed_get`, `speed_set`, `status_get` |
| thermal sensor | `sdi_thermal.c` | settings **and two thresholds that callers change** | `temperature_get`, `threshold_get`, `threshold_set`, `status_get` |
| transceiver controls | `sdi_media.c` | none; control bytes in the module | `tx_control`, `tx_control_status_get`, `cdr_status_set`, `cdr_status_get` |
| transceiver status and presence | `sdi_media.c` | none; status bytes in the module, the caller's flag variable | `presence_get`, `module_monitor_status_get`, `channel_monitor_status_get`, `channel_status_get` |
| MCIA register access | `utils/sdi_media_utils.c` | none; the module's memory | `sdi_media_info_get`, `sdi_media_info_set`: transfers in batches of 48 bytes |
| transceiver identification and measurements | `sdi_media.c`, `utils/sdi_media_utils.c` | none | parameters, vendor data, thresholds, measured values, feature and speed support |
| entity info and EEPROM | `sdi_entity_info.c`, `utils/sdi_eeprom_utils.c` | none; the caller's structure | `sdi_entity_info_data_get` over three EEPROM formats |
| NVRAM | `sdi_nvram.c` | none | three stubs that return `EOPNOTSUPP` |

How they interact: `sdi_sys_init` drives the framework, the framework calls the
register function of every resource type and then the presence query of every
entity; all components but the framework reach the device through the sysfs
helpers or the MCIA access; the only memory written after the start is a
thermal resource's thresholds.

What is hard, and what makes each component correct:

* **sysfs helpers.** One call is up to five system calls; the attribute can
  vanish or change between any two; the results of `fscanf`, `fprintf` and
  `fclose` are dropped. Correct: no path leaves a `FILE` open, an error means
  nothing was changed, and a call takes effect at one moment.
* **framework and start.** The list is built at the front and visited from the
  front, names are matched by prefix, a failed assertion aborts in the middle,
  and every visit overwrites one status. Correct: the list is what the
  configuration says, each entity is bound to the settings it names and can be
  found, and the start ends.
* **entity control.** An operation is a test, a helper and an interpretation
  of its result. Correct: no answer is made up, and failures answer on the
  safe side.
* **fan.** The maximum speed is read in one access and used as a divisor, the
  product goes through wrapping unsigned arithmetic, and the fan may be
  exchanged in between. Correct: the value written is the share asked for.
* **thermal.** A threshold is tested against the mark `INT_MIN` in one load and
  used in the next. Correct: "no thresholds" is for ever, the mark never gets
  out as a value, and a reading that stays below the low threshold alerts.
* **transceiver controls.** Identify, read, modify, write, with no lock.
  Correct: a setting holds until the same setting is changed.
* **transceiver status.** Several bytes read one after the other into a variable
  that is never cleared. Correct: no flag is made up, no lasting condition is
  missed.
* **MCIA access.** A transfer is one register transaction per 48 bytes and a
  tail, each of which may fail, with a swap in between. Correct: the range is
  gone through from its first byte to its last, byte p of the buffer is byte p
  of the range, and success means the end was reached.
* **identification and measurements.** About a hundred values, found through
  tables and chains of conditions. Correct: a value is made of all its own bytes
  of one module, and a failed getter leaves the output alone.
* **entity info.** The size of an EEPROM and its data are two accesses; the
  lengths and positions in the data are taken on trust; a tray asks the board
  for three names and its fans for their speeds. Correct: the info is not a
  mixture of two devices, an image that keeps to its own size is not read behind
  the buffer, the last of several TLVs counts, a tray that can be read does not
  fail with the board, and the call ends.

The 40 hazards, each at its line and with the properties that cover it, are in
`PROJECT.json`. For some the code is simply wrong, or no property could tell: they
have a note instead of a property, or next to one that covers a part.

## 2. Modules

    SysfsData ──┬── SysfsRegister (abstract) ◄──implements── SysfsAccess
                │        ▲
                └────────┴── INSTANCE ── EntityControl
    EntityConfig ── EntityFramework ──implements──► EntityDirectory (abstract)
    Eeprom ── EntityInfo
    MediaTransfer ─┬─ MediaValues ──implements──► MediaRange (abstract)
    MediaTables ───┘
    MediaCalls ─┬─ MediaControl
                └─ MediaStatus
    Fan        Thermal

`<Module>Proofs.tla` holds the theorems about a module; every module that a run
checks has one, and `MediaProofs` is that of both `MediaControl` and
`MediaStatus`.

`MC*.tla` give the constants of the runs their values. A definition whose
comment starts with `Bug:` is not part of any specification: it is the form a
plausible mistake would give to the definition next to it, and the property
named for it in `PROJECT.json` ("mutants") must fail with it.

| Module | Models | State ↔ code |
|---|---|---|
| `SysfsData` | what an attribute holds and what `fscanf`/`fprintf` convert: `Scanned`, `Printed`, with `%d` for an unsigned int | a content is nothing, blank, a number, a word, or raw bytes of a length |
| `SysfsRegister` | the promise of the helpers: an attribute is a register, a call takes effect at one moment or fails with no effect | `phase` is idle, pending or done |
| `SysfsAccess` | the seven helpers, one step per system call: `CheckArguments`, `Access`, `Open`, `Transfer`, `Close`, `Return` | `pc` is the place in the function, `streams` the open `FILE`s, `out` the caller's variable, `rc` the status |
| `EntityConfig` | pure part of registration: which node is accepted (the assertions), which child a name selects, which entity is built, the lookups | a document is a sequence of nodes; positions stand for pointers, 0 for `NULL` |
| `EntityDirectory` | the promise of the framework: a map from (type, instance) to the entity registered last, frozen when the library is up | |
| `EntityFramework` | `sdi_sys_init`: `RegisterEntity`/`Abort` per node, `InitEntity` per entity, `Finish`, and `HotPlug` meanwhile; the assertion on the access to the switch's registers may abort any node with a transceiver | `entities` is `entity_list`, head first; `literal` is the byte that `*(buf) = "\0"` leaves |
| `EntityControl` | the operations of `sdi_entity.c`, `sdi_entity_reset.c`, `sdi_led.c` and media presence, each a test, a call of the register of `SysfsRegister`, and an answer | `entity` is the settings; the helper's variables are those of `SysfsRegister` |
| `Fan` | the four calls, one sysfs access or one computation per step | `max`, `drive` are `max_speed`, `pwm_speed`; `alive` is FALSE once a division by zero killed the process |
| `Thermal` | the four calls, one load or store of a threshold per step | `low`, `high` are the fields of the resource; `temp` the reading in the caller's frame; `lows` is history |
| `MediaCalls` | what the next two share: callers, the module in each cage, and the place, request, type, status and answer of each call | `pc`, `call`, `id`, `rc`, `status` are the locals of a call |
| `MediaControl` | the four controls, one MCIA transaction per step: `Identify`, `Read`, `Write` | a byte is the set of its 1 bits; `seen` is the byte that is going to be written back; `wanted` and `swapped` are history |
| `MediaStatus` | the three flag getters, one status byte per step | a module is the set of its conditions; `Where` is the layout of the bytes, `Shown` the flag the code makes of a bit; `ever`, `always`, `swapped` are history |
| `MediaRange` | the promise of a transfer: the bytes of a range in order, and success at the end only | |
| `MediaTransfer` | `sdi_media_info_get`, `sdi_media_info_set`, `sdi_media_identifier_get`: `Transact` is one MCIA transaction, with the batch count and the tail of the code | `count` is `i`; `bytes` and `sources` are the bytes moved and the modules they belong to |
| `MediaTables` | the address tables of `sdi_media_utils.h`, the addresses that its enumerations list for each page (`Listed`), and for each getter and type of module the ranges it reads (`Reads`) or the status it returns without (`Verdict`) | |
| `MediaValues` | the getters over these two: `Identify`, the ranges of the plan one after the other, the value; and the operations that only return | `out` is the caller's variable; `read` is history |
| `Eeprom` | the parsers: FAN and PSU images in one step, one TLV of an ONIE image (`TakeTlv`; of `base_mac` it sets the bytes it has, each byte being a field of its own), with `uint8_t` positions and the wrap of `size - 4` | an image is what its parser sees of it; a text is known by the place it is copied from |
| `EntityInfo` | `sdi_entity_info_read`: `Measure`, `Read`, `Parse`, one TLV per step, the names of the board, one fan per step, the rating; devices are exchanged meanwhile | `size`, `buf`, `pos`, `left` are `buf_size`, `buf`, the position and `tlv_len`; `info` is the caller's structure and `tmp_info` |

`EntityControl` is a composition: it instantiates `SysfsRegister` instead of
carrying the helpers' steps, which `SysfsAccess` is shown to implement.
`MediaValues` composes the getters with the transfers themselves, batch by batch.
`Fan`, `Thermal` and `EntityInfo` use the register's promise without its
variables: an access takes effect at one moment, fails, or succeeds without a
value.

Abstractions. Paths, file names and the length of texts are values, not
strings; logging is left out. C's `strncmp` by the wanted name's length is the
relation `Prefix`. The three QSFP identifiers are one type. Any access may fail
at any time (removed device, `EIO`, error of the switch). Undefined or unspecified results are choices: the byte of
`*(buf) = "\0"` (`literal`), a caller's variable that a getter leaves alone. A
division by zero ends the process, as it does on the x86 platforms. The parsed
XML tree, which registration frees as a whole after use, is not a resource of the
model.

## 3. Runs

All runs finish; the largest, `media_control` with 465164 distinct states, takes
two to three minutes with two workers, the others less than one.

| Run | Question | Bounds, and why they are enough |
|---|---|---|
| `sysfs_access` | Does every path close its `FILE`, do errors change nothing, and do the steps implement the register, with termination? | Two callers, one text and one raw attribute, room for one open file, so that `fopen` also fails for want of descriptors; unsigned ints of two values, so that one of them prints as negative. A call touches one attribute, so two callers on it show every pairwise interleaving. |
| `entity_framework` | Is the list what the configuration says, is every entity found and bound right, is an error status of the start true, does the start end, and is it the directory? | All configurations of up to two entities from seven nodes and of up to three different settings nodes from four, with duplicates, names that are prefixes, missing attributes and names, an EEPROM format that is none and refused children; two devices that come and go. Order, duplicates and capture by prefix are all relations of two nodes. |
| `entity_control` | What does an answer say about the device? | Two threads, all operations on one shared attribute; entities with everything, with nothing, and with a power-off value missing. |
| `fan` | Is the PWM value the share asked for? | Two threads; unsigned ints of 5 bits, "percent" 4, maximum speeds 0, 5, 7, one above-maximum request, one `max_pwm` whose products overflow and one whose products do not. Small words make overflow reachable; the arithmetic has no other threshold. |
| `thermal` | Do the mark and the thresholds keep apart, whatever the interleaving, and does a low reading alert? | Two threads, readings and thresholds on both sides of each other, all three kinds of threshold, `INT_MIN` = -9. |
| `media_control` | Do settings hold, and are they read back, against a reader, the input pin and hot swap? | One writer (`tx_control` on channels 0 and 1, `cdr_status_set` on channel 1), so that a call meets a setting of another channel in the byte it writes back; one reader of channel 1; one module of every type or none. `Asked` gives each caller its requests. Liveness is checked here too: every call returns. |
| `media_status` | Is a flag ever made up or a lasting condition missed? | One caller, channels 0, 1 and 4, four conditions: of the module, of two channels, of an alarm and of a state byte, so that every getter reads both a byte with and one without its bit. Getters only read, so a second one changes nothing. |
| `media_values` | Is a value made of its own bytes, does a failure leave the output alone, and does a transfer implement a range, with termination? | Every entry of every table for every type of module, channels 0 to 4 where 4 does not exist; raw transfers of 0, 1, 47, 48, 49, 96 and 100 bytes: none, less than a batch, exactly one and two, and a tail after one and after two, also up to the last address of a `uint16_t`. |
| `entity_info` | What does the caller get of EEPROMs that are exchanged between accesses, where are texts copied from, does a tray fail for the board, and does the call end? | Twelve images: of each format sound and damaged ones (a text too long or empty, base MACs of different lengths, a total behind the buffer, wrapping positions, a label at the end, two bytes only); a fan tray, PSU trays, boards with, without, and without an info; up to two fans. |
| `fan_crash`, `thermal_high`, `media_lost_update` | Counterexamples, section 5. | as above; two writers on channels 0 and 1 for the last |

What the properties say, beyond one type invariant per module:

* `StreamsClosed`, `FailureHasNoEffect`, `ImplementsRegister` (SysfsAccess): a
  `FILE` is open exactly between `fopen` and `fclose`; an error changes no
  attribute, and no variable but a raw getter's buffer; the helpers are the
  register, including that every call returns.
* `ListReversesConfig`, `LastDuplicateWins`, `PrefixFreeBindsExactly`,
  `NoFalseAlarm`, `StartupEnds`, `ImplementsDirectory`
  (EntityFramework). `NoFalseAlarm`: when the start says that an entity failed, one
  that can be absent was. The converse is false, see section 5.
* `AnswersHeld`, `FailsSafe` (EntityControl): a positive answer was true at some
  time during the call; a query that fails says faulty, without power, absent.
* `PwmIsProportional`, `LargerAskWritesMore` (Fan), for requests up to the
  maximum and products that fit.
* `UnsupportedForever`, `MarkNeverLeaks`, `LowReadingAlerts` (Thermal). The last: a
  reading below all values that the low threshold had since it was taken alerts,
  though the threshold is tested in one load and compared in the next. It says
  nothing of the high threshold, whose comparison is wrong (section 5), and is about
  readings below zero, where thousandths and degrees compare alike.
* `SettingsHold`, `WritesOwnBitsOnly`, `ReadsBackQsfp`, `CallsReturn`
  (MediaControl), `AddedFlagsHeld`, `LastingConditionsReported` (MediaStatus).
* `FailureKeepsOutput`, `ValuesFromTheirOwnBytes`, `ImplementsRange`
  (MediaValues). The second relates all tables: the bytes of two values of one
  type of module are disjoint, and the bytes of a value start at an address that
  the enumerations of `sdi_media_utils.h` list and end before the next. The latter
  does not hold of the SFP channel monitors and is not asked of them (section 5).
  Two rows of a table that change places are not seen: which index is which value is
  said by a header outside the repository.
* `InfoWholeOrUntouched`, `TextsInsideBuffer`, `LastTlvWins`, `SlowestFan`,
  `TrayFailsForItself`, `CallReturns` (EntityInfo). What an image must keep to for
  `TextsInsideBuffer` is `WellFormed`, a condition on its own size; the code checks
  none of it for ONIE images, and not enough for FAN images. `WholeImage` leaves out
  an ONIE or FAN device that is exchanged, after its size was read, for one with a
  larger EEPROM: there the code reads behind the buffer (section 5). For PSU images
  nothing is assumed. `TrayFailsForItself`: where the board has an info, nothing that
  happens to it makes a tray fail whose own EEPROM was read.

A type invariant also says what a test in the code is for: no place behind a test
is reached by a call that failed it (`OnlyTested` in `Fan` and `MediaControl`,
`OnlyReadsTested` in `MediaStatus`, the buffer of a parser in `EntityInfo`).

`CHECK_DEADLOCK FALSE` stands in `entity_control` and in the fan runs only:
there an assertion or a division by zero may end the process.

**Fairness.** `SysfsAccess` and `MediaControl` assume weak fairness of each
caller's next step, `EntityInfo` and `MediaValues` of their one caller's: a call
is straight-line code, or a loop, in a thread that the kernel schedules, and every
system call or register access is answered, with success or an error.
`EntityFramework` assumes it of the start as a whole, which runs in one thread
and waits for nothing. Nothing is assumed of devices, drivers or of callers
starting calls. The other modules state no liveness and no fairness.

## 4. Proofs

The theorems hold for every value of the constants that meets the `ASSUME`s of
the modules; TLC evaluates those assumptions in the runs.

* `SysfsAccessProofs`. The inductive invariant adds to `TypeOK` and
  `StreamsClosed` that the result of a call which has not yet transferred is
  still untouched and its status still "ok": without it neither a failing `fopen`
  nor the refinement could be told to leave the variable alone.
  `NoDescriptorLeaks`, `FailuresHaveNoEffect` follow, and `RefinesRegister`:
  initial states and steps of the helpers map to initial states and steps (or
  stutters) of the register. `UintRoundTrip` is the lemma that `%d` and `%u`
  undo each other for every width.
* `ThermalProofs`. Invariant: the type invariant; what the place in the code
  says of the request and of the test already passed; and that a sensor is on
  one side of the mark with *both* thresholds (`NoThresholds` or
  `BothThresholds`). The last is what makes it harmless that the test for the
  high threshold looks at the low one. Theorems `NeverGainsThresholds`,
  `NeverLosesThresholds`. A second invariant (`Lows`) says of a thread that is
  past its comparison with the low threshold that it has met a value which a reading
  below zero is not below, and gives `LowReadingsAlert`.
* `MediaProofs`, for any callers, modules, channels, conditions and hot swaps. Two
  systems of calls, two invariants.
  - *Controls.* Under the hypothesis `SingleWriter` (each module has at most one
    thread that controls it), `SettingsAlwaysHold` and `SettingsAreReadBack`.
    `SettingsHold` is not inductive by itself: a write puts back the byte that was
    read, so the invariant adds that this byte agrees with all settings of its
    cell (`SeenAgrees`), that only the writer of a module writes
    (`WritersControl`, `OnlyControlsWrite`), and that no setting is about the input
    pin of an SFP (`PinNotWanted`), which the module changes by itself. Without
    `SingleWriter` the first theorem is false, which `media_lost_update` shows.
    `WritesStayInBits` needs no such hypothesis: its invariant says that the type
    identified is that of the module as long as it was not swapped.
  - *Status.* `StatusInvariant`, with no hypothesis. A flag in the caller's
    variable was in it before or belongs to a condition that held during the call
    (`AddedHeld`), because the histories hold what is the case now
    (`HistoryKept`). A condition that has held all the time is in the variable or
    its byte is still to be read (`LastingAreSeen`). This takes what links the two
    halves of the code, the bytes that a getter reads and the bits it tests:
    `AddressesRead` (the byte of every reportable condition is among those read),
    `ReportableIsShown` (its bit is tested and gives its flag) and
    `ShownIsOfCondition` (a tested bit gives a flag of the condition that sets
    it), case by case through the layout (`QsfpPlaces`, `SfpPlaces`).
    `FlagsNeverMadeUp` and `LastingNeverMissed` follow.
* `FanProofs`. A value about to be written is `PwmOf` of the thread's own request
  and of a maximum that is not 0 (`Computed`); the rest is arithmetic of the two
  truncating divisions, for words of any width: `SpeedIsProportional`,
  `LargerNeverWritesLess`.
* `EntityControlProofs`, over the register of `SysfsRegister`, for any attributes
  and threads. Invariant: a helper runs only for a supported operation and with
  its request (`Flow`); the history holds what is the case now (`Watched`); a text
  that a query found was there at some time since the query began (`TextHeld`).
  `AnswersAreTrue`, `FailuresAnswerSafely`.
* `EntityFrameworkProofs`, for documents of any length. Invariant: the list is the
  reverse of the nodes registered, an error status has a failed entity, and there is
  none before the visits (`Progress`). Lemmas say what the
  searches of `EntityConfig` find, and that an accepted node gives a well-typed
  entity. `ListAlwaysReverses`, `AlarmIsNeverFalse`, `NamesBindExactly`,
  `LastAlwaysWins`, and `RefinesDirectory`, the whole of `ImplementsDirectory`: a
  node inserted at the front is found under its key and changes what is found
  under no other (`FoundInFront`). For the count in `LastDuplicateWins`, the
  instance of an entity is a bijection from the entities of a type to the
  instances under which one is found, if no key occurs twice (`CountIsOfFound`).
* `EntityInfoProofs`, for any images, positions and field sizes. Four invariants over
  one base: `Contents` (every field of the structure is from one image, by groups)
  gives `InfoNeverMixed`; `TlvInv` (the position is on a TLV or at the end) gives
  `LastTlvAlwaysWins`; `FansInv` gives `SlowestFanFound` and, with what the status can be (`OwnStatus`),
  `TrayFailsAlone`; and the sizes of the fields, with the remembered image, give
  `TextsStayInside`. That one has the hypothesis
  `PpidFits` on the sizes of two fields, because the code cuts the serial number
  by the size of the part number's field (`sdi_eeprom_utils.c:188`).
* `MediaValuesProofs`. The invariant says that the bytes moved so far are the first
  ones of the range (`InOrder`: full batches, the tail last) and what is left of a
  transfer between two (`Clean`); it gives `RefinesRange`, `FailuresKeepOutput`, and
  with the history of swaps `ValuesAreWhole`. `ValuesAreTheirOwn` adds the tables:
  a byte is in the zone of one getter (`ShownInZone`), and there in at most one
  entry of its table (`ParametersApart`, `VendorsApart`, `ThresholdsApart`), and a
  range lies between one listed address and the next (`ReadIsPlaced`). The
  lengths of the vendor texts come from a header outside this repository, so this
  theorem has the hypothesis `VendorsFit`: none is longer than the room to the
  next address; the lengths of the run meet it with equality.

Every proof module also has the type invariant as a theorem of its specification
(`TypesHold`; in `MediaProofs` `ControlTypesHold` and `StatusTypesHold`), with what
it says of the tests.

The hypotheses beyond the modules' assumptions are the three named above:
`SingleWriter`, `PpidFits` and `VendorsFit`. `FrameworkAssumption`
says that `std_config` hands over sequences of nodes, `MediaValuesAssumption` that
callers pass members of the enumerations that index the tables.

Only model-checked: everything about liveness, which the proof system does not do:
`StartupEnds`, `CallsReturn`, `CallReturns`, and the liveness parts of
`ImplementsRegister` and `ImplementsRange`, whose safety parts are
`RefinesRegister` and `RefinesRange`. Every other property of a passing run is a
theorem.

## 5. Where the code and its comments disagree

Three disagreements are runs that end in a counterexample:

* `fan_crash`: `sdi_fan_speed_set` divides by a maximum speed that reads as zero
  or could not be scanned (`sdi_fan.c:199`).
* `thermal_high`: the comparison with the high threshold is `temp < high_thresh`
  and compares thousandths of a degree with degrees (`sdi_thermal.c:219`), so a
  reading above it raises no alert, and one below it does.
* `media_lost_update`: two controls of two channels of one module, the second
  write undoes the first (`sdi_media.c:562`).

Others that the models carry as the code has them:

* `sdi_sys_init` returns success although an entity failed to initialise, because
  each entity overwrites the status (`sdi_startup.c:30`), while any other status is
  reported as "At least one Entity failed" (`:47`): the status is that of the entity
  visited last, the one configured first, and any other failure is forgotten;
  `NoFalseAlarm` is the half that holds;
* the number of MAC addresses is put together from its two bytes by shifts and
  swapped once more by `ntohs` (`sdi_eeprom_utils.c:119`), for a field that is "2
  bytes in big-endian format" (`sdi_eeprom_utils.h:66`): the value is right on a
  big-endian machine only;
* the handle of the system board is dereferenced one line before it is tested for
  `NULL` (`sdi_entity_info.c:266`, `:267`), so the info of a tray kills the process
  where there is no board;
* a device exchanged for one with a larger EEPROM between the reads of the size and
  of the data (`:191`, `:205`): the data read is a part of the new image, and the
  parsers of ONIE and FAN images go on behind the buffer;
* a base MAC that is shorter than an earlier one leaves the tail of the earlier one
  (`sdi_eeprom_utils.c:102`);
* `sdi_entity_psu_output_power_status_get` prepares `EPERM` for an entity that is no
  PSU (`sdi_entity.c:90`) and never returns it, because it asserts that it is one
  (`:96`);
* a child or settings node without a name is compared as a null pointer
  (`sdi_entity_framework.c:185`, `:301`);
* a fan that shows speed 0 resets the search for the slowest fan
  (`sdi_entity_info.c:97`);
* positions in a FAN image are kept in a `uint8_t` and wrap around
  (`sdi_eeprom_utils.c:169`), and the length of the serial number is taken from the
  size of the part number's field (`:188`);
* the search for the label of a PSU image does not try the last position, and
  `size - 4` wraps around for a smaller image (`sdi_eeprom_utils.c:272`);
* nothing compares the lengths of TLVs with the total or the buffer
  (`sdi_eeprom_utils.c:141`);
* an SFP channel monitor reads page 0 where the module monitors read page 2
  (`sdi_media.c:1409`, compare `:1305`) and where the header lists its addresses
  (`sdi_media_utils.h:177`), and the condition for the third monitor is
  a constant, so an unknown monitor shows the transmit power (`:1418`);
* the getters of measured values and thresholds read a `float` from a buffer of two
  bytes (`sdi_media.c:1094`): the value holds bytes from behind the buffer;
* a table entry of size 0 gives success with no byte read (`sdi_media_utils.h`, the
  entries `{ 0, 0 }`);
* some operations return success without an effect or an output
  (`sdi_media.c:1208`, `:1231`, `:1248`);

* getters succeed without a value and setters without a store
  (`sdi_sysfs_utils.c:81`, `:118`, `:151`);
* the settings of an entity are searched by its `alias` attribute, not by the
  default alias that is built when there is none, so such an entity aborts the
  start (`sdi_entity_framework.c:516`, `:533`);
* the PSU rating is taken from every child that is not "rating" (`:422`);
* `sdi_resource_lookup` does not look at the type and compares the alias by
  prefix (`:768`);
* `*(buf) = "\0"` stores the low byte of an address, so an operation that is not
  configured may look configured (`:463`, `:564`);
* on an SFP the control writes the soft bit 6 and the status getter reads the
  pin's bit 7 (`sdi_media.c:588`, `:656`), so `ReadsBackQsfp` is stated for QSFP
  only;
* flag variables are never cleared (`sdi_media.c:372`);
* a fan whose fault text is not configured is faulty when its status is blank
  (`sdi_fan.c:230`, and `sdi_entity.c:72` for entities); a media whose presence
  attribute is blank is present (`sdi_media.c:102`);
* a speed above the maximum gives a PWM value above the maximum (`sdi_fan.c:199`);
* with a configured `max_rpm` and no attribute, `sdi_fan_max_speed_get` stores
  the value and then reads the fan's directory all the same
  (`sdi_fan.c:134`-`142`).

## 6. Not modelled

* `sdi_nvram.c` and the digital display LED are stubs that return an error and
  keep no state.
* `std_config`, the linked list and the MCIA transport are outside this
  repository; they appear as what their callers can observe.
* What a byte of a transceiver *means* (a temperature, a speed code) is left out:
  a value is known by the bytes it is made of. So is the text of names, except
  where they come from and how they are cut.
* Iterators and the getters of an entity's name, type and alias read what
  registration wrote and change nothing. Logging is left out.

Left for later: a model in which the fans and the thermal sensor run over the
variables of `SysfsRegister` rather than over its promise.
