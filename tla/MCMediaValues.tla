---------------------------- MODULE MCMediaValues ----------------------------
(* Instance of MediaValues: every entry of every table, and raw transfers of *)
(* sizes around the size of a batch.                                         *)
EXTENDS MediaValues

MCVendorLength == <<16, 3, 16, 8, 16, 2>>

Getter(op, args, ns) == [op : {op}, media : {TRUE}, arg : args, n : ns]

MCRequests ==
       Getter("speed", {0}, {0}) \cup Getter("code", {0}, {0}) \cup Getter("features", {0}, {0})
  \cup Getter("parameter", 1 .. 23, {0})
  \cup Getter("vendor", 1 .. 6, {0, 2, 17})
  \cup Getter("threshold", 1 .. 20, {0})
  \cup Getter("module_monitor", 1 .. 3, {0})
  \cup Getter("channel_monitor", 1 .. 4, 0 .. 4)
  \cup {[op |-> r.op, media |-> FALSE, arg |-> r.arg, n |-> 0] :
          r \in Getter("parameter", {1}, {0}) \cup Getter("features", {0}, {0})}
  \cup [op : DOMAIN Stubs, media : {TRUE}, arg : {0}, n : {0}]

RawRanges == [page : {0}, addr : {0, 65436}, size : {0, 1, 47, 48, 49, 96, 100}]

MCRawRequests == [op : {"info_get", "info_set"}, buf : BOOLEAN, range : RawRanges]

MCRanges ==
  RawRanges \cup
    UNION {LET reads == Reads(r.op, r.arg, r.n, t) IN {reads[i] : i \in 1 .. Len(reads)} :
             <<r, t>> \in {q \in MCRequests \X (Types \ {"other"}) :
                q[1].op \in Getters /\ Verdict(q[1].op, q[1].arg, q[1].n, q[2]) = "ok"}}
=============================================================================
