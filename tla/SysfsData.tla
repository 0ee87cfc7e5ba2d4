------------------------------ MODULE SysfsData ------------------------------
(***************************************************************************)
(* The data of the sysfs helpers (utils/sdi_sysfs_utils.c): the contents   *)
(* an attribute file may have, the calls the helpers accept, and what the  *)
(* conversions "%s", "%u" and "%d" make of a content.                      *)
(*                                                                         *)
(* A value is a record of a kind and a payload.  The payload of a number   *)
(* is the integer its text denotes; unsigned int has UintModulus values    *)
(* (2^32 in the code).                                                     *)
(***************************************************************************)
EXTENDS Integers

CONSTANTS
  TextAttrs,    \* attributes that hold a line of text
  RawAttrs,     \* attributes that hold raw data (EEPROM images)
  NullAttr,     \* a NULL path or attribute name
  Words,        \* texts that are not a number
  Nums,         \* the integers a text may denote
  Lengths,      \* lengths of raw data
  UintHalf      \* half of the values of unsigned int

ASSUME SysfsDataAssumption ==
  /\ UintHalf \in Nat \ {0}
  /\ Nums \subseteq Int
  /\ -UintHalf .. 2 * UintHalf - 1 \subseteq Nums
  /\ Lengths \subseteq Nat
  /\ TextAttrs \cap RawAttrs = {}
  /\ NullAttr \notin TextAttrs \cup RawAttrs

UintModulus == 2 * UintHalf
Uint == 0 .. UintModulus - 1

-----------------------------------------------------------------------------
(* Contents and values. *)

Absent    == [kind |-> "absent", val |-> 0]    \* no such file
Blank     == [kind |-> "blank",  val |-> 0]    \* a file with no word in it
Word(w)   == [kind |-> "word",   val |-> w]
Num(n)    == [kind |-> "num",    val |-> n]
Raw(len)  == [kind |-> "raw",    val |-> len]  \* len bytes of raw data
Untouched == [kind |-> "none",   val |-> 0]    \* the caller's variable as it was
Partial   == [kind |-> "part",   val |-> 0]    \* a buffer filled in part
NullPtr   == [kind |-> "null",   val |-> 0]    \* a NULL value or result pointer
Pointer   == [kind |-> "ptr",    val |-> 0]    \* a valid result pointer

Attrs   == TextAttrs \cup RawAttrs
Texts   == {Word(w) : w \in Words} \cup {Num(n) : n \in Nums}
Content(a) == IF a \in TextAttrs THEN Texts \cup {Absent, Blank}
                                 ELSE {Raw(l) : l \in Lengths} \cup {Absent}
Files == {f \in [Attrs -> UNION {Content(a) : a \in Attrs}] :
            \A a \in Attrs : f[a] \in Content(a)}

-----------------------------------------------------------------------------
(* Calls: one record per helper, attribute and argument. *)

TextGetters == {"str_get", "uint_get", "int_get"}
Setters     == {"str_set", "uint_set"}
RawGetters  == {"size_get", "data_get"}

Requests ==
       [op : TextGetters,  attr : TextAttrs \cup {NullAttr}, arg : {Pointer, NullPtr}]
  \cup [op : {"str_set"},  attr : TextAttrs \cup {NullAttr}, arg : Texts \cup {NullPtr}]
  \cup [op : {"uint_set"}, attr : TextAttrs \cup {NullAttr}, arg : {Num(v) : v \in Uint}]
  \cup [op : {"size_get"}, attr : RawAttrs \cup {NullAttr},  arg : {Pointer, NullPtr}]
  \cup [op : {"data_get"}, attr : RawAttrs \cup {NullAttr},
        arg : {Num(l) : l \in Lengths} \cup {NullPtr}]

NoRequest == [op |-> "size_get", attr |-> NullAttr, arg |-> NullPtr]

\* The test at the head of every helper.
BadArguments(r) ==
  \/ r.attr = NullAttr
  \/ r.arg = NullPtr
  \/ r.op = "data_get" /\ r.arg = Num(0)

-----------------------------------------------------------------------------
(* Conversions. *)

\* An unsigned int read as int, and what "%d" prints for it.
AsInt(v) == IF v < UintHalf THEN v ELSE v - UintModulus

\* What fscanf assigns to the caller's variable for a content.
Scanned(op, content) ==
  CASE op = "str_get" /\ content.kind \in {"word", "num"} -> content
    [] op = "uint_get" /\ content.kind = "num" -> Num(content.val % UintModulus)
    [] op = "int_get"  /\ content.kind = "num" -> Num(AsInt(content.val % UintModulus))
    [] OTHER -> Untouched

\* What fprintf prints for a setter's argument.
Printed(r) == IF r.op = "uint_set" THEN Num(AsInt(r.arg.val)) ELSE r.arg
=============================================================================
