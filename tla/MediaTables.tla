----------------------------- MODULE MediaTables -----------------------------
(***************************************************************************)
(* Where the values of a transceiver are (sdi_media_utils.h), and which    *)
(* ranges the getters of sdi_media.c read for a request.                   *)
(***************************************************************************)
EXTENDS Integers, Sequences

CONSTANT VendorLength    \* SDI_MEDIA_MAX_VENDOR_*_LEN - 1, in the order of the table

ASSUME VendorLengthAssumption == VendorLength \in [1 .. 6 -> 1 .. 48]

\* Types of modules: "qsfp" stands for QSFP and QSFP+.
Types == {"qsfp", "qsfp28", "sfp", "other"}
Family(t) == IF t = "sfp" THEN "sfp" ELSE "qsfp"

Entry(a, n) == [addr |-> a, size |-> n]
None == Entry(0, 0)    \* { 0, 0 }: there is no such value

\* sdi_qsfp_info, sdi_sfp_info.
Info == [
  qsfp |-> <<Entry(186, 2), Entry(188, 2), Entry(190, 1), Entry(191, 1), Entry(223, 1),
             Entry(130, 1), Entry(139, 1), Entry(140, 1), Entry(128, 1), Entry(129, 1),
             Entry(142, 1), Entry(145, 1), Entry(144, 1), Entry(143, 1), Entry(146, 1),
             None, Entry(192, 4), Entry(221, 1), Entry(220, 1), Entry(147, 1),
             None, None, None>>,
  sfp  |-> <<Entry(60, 2), None, None, Entry(63, 1), Entry(95, 1),
             Entry(2, 1), Entry(11, 1), Entry(12, 1), Entry(0, 1), Entry(1, 1),
             Entry(14, 1), Entry(17, 1), Entry(16, 1), Entry(19, 1), Entry(18, 1),
             Entry(15, 1), Entry(64, 2), Entry(93, 1), Entry(92, 1), None,
             Entry(66, 1), Entry(67, 1), Entry(36, 1)>>]

\* sdi_qsfp_vendor_info, sdi_sfp_vendor_info: name, OUI, serial number, date,
\* part number, revision.
VendorAddr == [qsfp |-> <<148, 165, 196, 212, 168, 184>>,
               sfp  |-> <<20, 37, 68, 84, 40, 56>>]

\* Bug: the thresholds follow each other in the order of the table, without a gap.
ThresholdsInARow == [
  qsfp |-> [i \in 1 .. 20 |-> IF i > 16 THEN None ELSE Entry(128 + 2 * (i - 1), 2)],
  sfp  |-> [i \in 1 .. 20 |-> Entry(2 * (i - 1), 2)]]

\* sdi_qsfp_thresholds, sdi_sfp_thresholds: four of each of temperature,
\* voltage, receive power, bias and transmit power; QSFP has not the last.
Thresholds == [
  qsfp |-> [i \in 1 .. 20 |->
              IF i > 16 THEN None
              ELSE Entry(<<128, 144, 176, 184>>[(i - 1) \div 4 + 1] + 2 * ((i - 1) % 4), 2)],
  sfp  |-> [i \in 1 .. 20 |->
              Entry(<<0, 8, 32, 16, 24>>[(i - 1) \div 4 + 1] + 2 * ((i - 1) % 4), 2)]]

\* Monitors.  Any number above 3 stands for one that is not known.
TEMP == 1
VOLT == 2
RX_POWER == 1
TX_BIAS  == 2
TX_POWER == 3

ModuleMonitor == [qsfp |-> <<22, 26>>, sfp |-> <<96, 98>>]

\* The addresses that the enumerations of sdi_media_utils.h list for a page: a
\* value is in the bytes from its address up to the next.  The second to fourth
\* byte of the options of a QSFP module are listed as well, but are no values
\* of their own.
Listed(f, p) ==
  CASE f = "sfp" /\ p = 0 ->
         (0 .. 3) \cup {11, 12} \cup (14 .. 20) \cup {36, 37, 40, 56, 60, 63, 64, 66, 67, 68, 84,
          92, 93, 95, 96}
    [] f = "sfp" /\ p = 2 ->
         {2 * i : i \in 0 .. 19} \cup {56} \cup {2 * i : i \in 38 .. 45}
           \cup {96, 98, 100, 102, 104, 110, 112, 113, 116, 117, 146}
    [] f = "qsfp" /\ p = 0 ->
         {2, 3, 4, 6, 7, 9, 10, 11, 12, 22, 26} \cup {2 * i : i \in 17 .. 24}
           \cup {86, 98} \cup (127 .. 131) \cup {139, 140} \cup (142 .. 148)
           \cup {165, 168, 184, 186, 188, 190, 191, 192, 196, 212, 220, 221, 223}
    [] f = "qsfp" /\ p = 3 -> {b + 2 * i : b \in {128, 144, 176, 184}, i \in 0 .. 3}
    [] OTHER -> {}

Where(p, e) == [page |-> p, addr |-> e.addr, size |-> e.size]

Shorter(a, b) == IF a < b THEN a ELSE b

-----------------------------------------------------------------------------
\* Operations on a media resource that access the module, and those that do
\* nothing but return.
Getters == {"speed", "parameter", "vendor", "code", "threshold", "module_monitor",
            "channel_monitor", "features"}
Floats == {"threshold", "module_monitor", "channel_monitor"}
Stubs ==
  [is_dell_qualified |-> "ok", dell_product_info |-> "ok", module_control |-> "ok",
   module_control_status |-> "ok", phy_autoneg_set |-> "ok", phy_mode_set |-> "ok",
   phy_speed_set |-> "ok", module_init |-> "ok",
   module_monitor_threshold |-> "EOPNOTSUPP", channel_monitor_threshold |-> "EOPNOTSUPP",
   led_set |-> "EOPNOTSUPP", wavelength_set |-> "EOPNOTSUPP",
   read |-> "unimplemented", write |-> "unimplemented"]

\* What the switch over the type does with a request: "ok", or an error before
\* an access.  arg is the index or the monitor, n the channel or the size of
\* the caller's buffer.
Verdict(op, arg, n, t) ==
  CASE t = "other" -> "error"
    [] t # "other" /\ op = "module_monitor" -> IF arg \in {TEMP, VOLT} THEN "ok" ELSE "EINVAL"
    [] t \in {"qsfp", "qsfp28"} /\ op = "channel_monitor" ->
         IF arg = TX_POWER THEN "EOPNOTSUPP"
         ELSE IF arg \in {RX_POWER, TX_BIAS} /\ n \in 0 .. 3 THEN "ok" ELSE "EINVAL"
    [] OTHER -> "ok"

\* The channel monitors; the last condition for an SFP is a constant, so what is
\* not known reads as the transmit power.
ChannelMonitor(arg, n, t) ==
  IF t = "sfp"
  THEN Entry(CASE arg = RX_POWER -> 104 [] arg = TX_BIAS -> 100 [] OTHER -> 102, 2)
  ELSE Entry((IF arg = RX_POWER THEN 34 ELSE 42) + 2 * n, 2)

\* The ranges that a getter reads of a module of type t, in their order.
Reads(op, arg, n, t) ==
  LET f == Family(t) IN
    CASE op = "speed"     -> <<>>
      [] op = "parameter" -> <<Where(0, Info[f][arg])>>
      [] op = "vendor"    -> <<Where(0, Entry(VendorAddr[f][arg], Shorter(VendorLength[arg], n)))>>
      [] op = "code"      -> <<Where(0, Entry(IF f = "sfp" THEN 3 ELSE 131, 8))>>
      [] op = "threshold" -> <<Where(IF f = "sfp" THEN 2 ELSE 3, Thresholds[f][arg])>>
      [] op = "module_monitor" ->
           <<Where(IF f = "sfp" THEN 2 ELSE 0, Entry(ModuleMonitor[f][arg], 2))>>
      [] op = "channel_monitor" -> <<Where(0, ChannelMonitor(arg, n, t))>>
      [] op = "features"  ->
           IF f = "sfp" THEN <<Where(0, Entry(93, 1)), Where(0, Entry(92, 1))>>
           ELSE <<Where(0, Entry(2, 1)), Where(0, Entry(195, 1))>>
=============================================================================
