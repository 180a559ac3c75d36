---------------------------- MODULE ObjectStore ----------------------------
(***************************************************************************)
(* One object of the Kubernetes API server together with the operator's    *)
(* informer cache of it, as the controllers use them through the           *)
(* recon.Context client: reads (Get, List) are answered by the cache,      *)
(* writes (Update, Patch, Delete) go to the API server.                    *)
(*                                                                         *)
(* The object is the sequence of its versions from the one the cache holds *)
(* (the first) to the one the API server holds (the last); those in        *)
(* between are watch events still under way.  All controllers of the       *)
(* operator run in one manager and share this cache, so it never goes      *)
(* back.                                                                   *)
(***************************************************************************)
EXTENDS Naturals, Sequences

CONSTANT MaxLag  \* bound: versions the cache may be behind on one object

ASSUME MaxLagAssumption == MaxLag \in Nat

\* The version the API server holds.
Latest(log) == log[Len(log)]

\* The version a Get or a List returns.
Cached(log) == log[1]

\* A copy read from the cache now carries the current resourceVersion.
UpToDate(log) == Len(log) = 1

\* A write of version v.  Writing what is already there makes no new
\* version; a cache MaxLag versions behind receives an event first.
Write(log, v) ==
  IF v = Latest(log) THEN log
  ELSE Append(IF Len(log) > MaxLag THEN Tail(log) ELSE log, v)

\* Every version the cache holds or has yet to receive.
Versions(log) == {log[i] : i \in 1 .. Len(log)}

\* Objects of type T.
Logs(T) == {log \in Seq(T) : Len(log) \in 1 .. MaxLag + 1}
=============================================================================
