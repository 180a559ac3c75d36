------------------------- MODULE ObjectStoreProofs -------------------------
(***************************************************************************)
(* Facts about the logs of ObjectStore, for every MaxLag.                  *)
(***************************************************************************)
EXTENDS ObjectStore, TLAPS

\* A log has a cached and a latest version, and both are objects.
LEMMA LogEnds ==
  ASSUME NEW T, NEW log \in Logs(T)
  PROVE  /\ Len(log) \in Nat \ {0}
         /\ log \in Seq(T)
         /\ Latest(log) \in T
         /\ Cached(log) \in T
         /\ \A i \in 1 .. Len(log) : log[i] \in T
  BY MaxLagAssumption DEF Logs, Latest, Cached

\* A write keeps a log a log, makes v the latest version, and leaves the
\* other versions as they were, or one position nearer to the cache.
LEMMA WriteLog ==
  ASSUME NEW T, NEW log \in Logs(T), NEW v \in T
  PROVE  /\ Write(log, v) \in Logs(T)
         /\ Latest(Write(log, v)) = v
  <1>1. Len(log) \in 1 .. MaxLag + 1 /\ log \in Seq(T) /\ MaxLag \in Nat
    BY MaxLagAssumption DEF Logs
  <1>2. CASE v = Latest(log)
    BY <1>1, <1>2 DEF Write, Logs
  <1>3. CASE v # Latest(log) /\ Len(log) > MaxLag
    <2>1. Write(log, v) = Append(Tail(log), v)
      BY <1>3 DEF Write
    <2>2. Tail(log) \in Seq(T) /\ Len(Tail(log)) = Len(log) - 1
      BY <1>1
    <2> QED BY <1>1, <1>3, <2>1, <2>2 DEF Logs, Latest
  <1>4. CASE v # Latest(log) /\ ~(Len(log) > MaxLag)
    <2>1. Write(log, v) = Append(log, v)
      BY <1>4 DEF Write
    <2> QED BY <1>1, <1>4, <2>1 DEF Logs, Latest
  <1> QED BY <1>2, <1>3, <1>4

\* Delivering an event keeps a log a log, with the same latest version.
LEMMA DeliverLog ==
  ASSUME NEW T, NEW log \in Logs(T), Len(log) > 1
  PROVE  /\ Tail(log) \in Logs(T)
         /\ Latest(Tail(log)) = Latest(log)
  <1>1. Len(log) \in 1 .. MaxLag + 1 /\ log \in Seq(T) /\ MaxLag \in Nat
    BY MaxLagAssumption DEF Logs
  <1>2. Tail(log) \in Seq(T) /\ Len(Tail(log)) = Len(log) - 1
    BY <1>1
  <1>3. Tail(log)[Len(log) - 1] = log[Len(log)]
    BY <1>1
  <1> QED BY <1>1, <1>2, <1>3 DEF Logs, Latest

\* A log of one version.
LEMMA FreshLog ==
  ASSUME NEW T, NEW v \in T
  PROVE  /\ <<v>> \in Logs(T)
         /\ Latest(<<v>>) = v
  BY MaxLagAssumption DEF Logs, Latest

\* The ends of a log are versions of it, and versions are objects.
LEMMA EndVersions ==
  ASSUME NEW T, NEW log \in Logs(T)
  PROVE  /\ Latest(log) \in Versions(log)
         /\ Cached(log) \in Versions(log)
         /\ Versions(log) \subseteq T
         /\ UpToDate(log) => Versions(log) = {Latest(log)} /\ Cached(log) = Latest(log)
  BY LogEnds DEF Latest, Cached, Versions, UpToDate

\* A write adds no version but the one written.
LEMMA WriteVersions ==
  ASSUME NEW T, NEW log \in Logs(T), NEW v \in T
  PROVE  Versions(Write(log, v)) \subseteq Versions(log) \cup {v}
  <1>1. log \in Seq(T) /\ Len(log) \in Nat \ {0}
    BY LogEnds
  <1>2. CASE v = Latest(log)
    BY <1>2 DEF Write
  <1>3. ASSUME NEW s \in Seq(T), Versions(s) \subseteq Versions(log)
        PROVE  Versions(Append(s, v)) \subseteq Versions(log) \cup {v}
    <2> SUFFICES ASSUME NEW i \in 1 .. Len(Append(s, v))
                 PROVE  Append(s, v)[i] \in Versions(log) \cup {v}
      BY DEF Versions
    <2>1. i = Len(s) + 1 => Append(s, v)[i] = v
      OBVIOUS
    <2>2. i # Len(s) + 1 => i \in 1 .. Len(s) /\ Append(s, v)[i] = s[i]
      OBVIOUS
    <2> QED BY <2>1, <2>2, <1>3 DEF Versions
  <1>4. CASE v # Latest(log) /\ Len(log) > MaxLag
    <2>1. Tail(log) \in Seq(T) /\ Len(Tail(log)) = Len(log) - 1
      BY <1>1
    <2>2. \A i \in 1 .. Len(log) - 1 : Tail(log)[i] = log[i + 1]
      BY <1>1
    <2>3. Versions(Tail(log)) \subseteq Versions(log)
      BY <1>1, <2>1, <2>2 DEF Versions
    <2> QED BY <1>3, <1>4, <2>1, <2>3 DEF Write
  <1>5. CASE v # Latest(log) /\ ~(Len(log) > MaxLag)
    BY <1>1, <1>3, <1>5 DEF Write
  <1> QED BY <1>2, <1>4, <1>5

\* Delivering an event adds no version.
LEMMA DeliverVersions ==
  ASSUME NEW T, NEW log \in Logs(T), Len(log) > 1
  PROVE  Versions(Tail(log)) \subseteq Versions(log)
  <1>1. log \in Seq(T) /\ Len(log) \in Nat \ {0}
    BY LogEnds
  <1>2. Len(Tail(log)) = Len(log) - 1 /\ \A i \in 1 .. Len(log) - 1 : Tail(log)[i] = log[i + 1]
    BY <1>1
  <1> QED BY <1>1, <1>2 DEF Versions

\* A log of one version has that version.
LEMMA FreshVersions ==
  ASSUME NEW v
  PROVE  Versions(<<v>>) = {v}
  BY DEF Versions

\* What is never undone once it is so: from some version of the log on, all
\* are in D.
LEMMA WriteOrdered ==
  ASSUME NEW T, NEW D, NEW log \in Logs(T), NEW v \in T,
         \A k, l \in 1 .. Len(log) : k <= l /\ log[k] \in D => log[l] \in D,
         Latest(log) \in D => v \in D
  PROVE  \A k, l \in 1 .. Len(Write(log, v)) :
            k <= l /\ Write(log, v)[k] \in D => Write(log, v)[l] \in D
  <1>1. log \in Seq(T) /\ Len(log) \in Nat \ {0}
    BY LogEnds
  <1>2. CASE v = Latest(log)
    BY <1>2 DEF Write
  <1>3. CASE v # Latest(log) /\ ~(Len(log) > MaxLag)
    <2>1. Write(log, v) = Append(log, v)
      BY <1>3 DEF Write
    <2>2. \A i \in 1 .. Len(log) : Append(log, v)[i] = log[i]
      BY <1>1
    <2>3. Append(log, v)[Len(log) + 1] = v /\ Len(Append(log, v)) = Len(log) + 1
      BY <1>1
    <2>4. \A k \in 1 .. Len(log) : log[k] \in D => v \in D
      BY <1>1 DEF Latest
    <2> QED BY <1>1, <2>1, <2>2, <2>3, <2>4
  <1>4. CASE v # Latest(log) /\ Len(log) > MaxLag
    <2> DEFINE s == Tail(log)
    <2>1. Write(log, v) = Append(s, v)
      BY <1>4 DEF Write
    <2>2. s \in Seq(T) /\ Len(s) = Len(log) - 1
      BY <1>1
    <2>3. \A i \in 1 .. Len(s) : s[i] = log[i + 1]
      BY <1>1
    <2>4. \A i \in 1 .. Len(s) : Append(s, v)[i] = log[i + 1]
      BY <2>2, <2>3
    <2>5. Append(s, v)[Len(s) + 1] = v /\ Len(Append(s, v)) = Len(s) + 1
      BY <2>2
    <2>6. \A k \in 1 .. Len(log) : log[k] \in D => v \in D
      BY <1>1 DEF Latest
    <2> HIDE DEF s
    <2> QED BY <1>1, <2>1, <2>2, <2>4, <2>5, <2>6
  <1> QED BY <1>2, <1>3, <1>4

\* The same when an event is delivered.
LEMMA DeliverOrdered ==
  ASSUME NEW T, NEW D, NEW log \in Logs(T), Len(log) > 1,
         \A k, l \in 1 .. Len(log) : k <= l /\ log[k] \in D => log[l] \in D
  PROVE  \A k, l \in 1 .. Len(Tail(log)) :
            k <= l /\ Tail(log)[k] \in D => Tail(log)[l] \in D
  <1>1. log \in Seq(T) /\ Len(log) \in Nat \ {0}
    BY LogEnds
  <1>2. Len(Tail(log)) = Len(log) - 1 /\ \A i \in 1 .. Len(log) - 1 : Tail(log)[i] = log[i + 1]
    BY <1>1
  <1> QED BY <1>1, <1>2

\* A version in B comes after one in I or in B only: between a version that
\* is in neither and a later one in B there is one in I.
Through(log, B, I) ==
  \A k, l \in 1 .. Len(log) :
    k <= l /\ log[l] \in B /\ log[k] \notin I \cup B => \E m \in k .. l : log[m] \in I

\* A write that keeps to this keeps the log to it ...
LEMMA WriteThrough ==
  ASSUME NEW T, NEW B, NEW I, NEW log \in Logs(T), NEW v \in T,
         Through(log, B, I), v \in B => Latest(log) \in I \cup B
  PROVE  Through(Write(log, v), B, I)
  <1> USE DEF Through
  <1>1. log \in Seq(T) /\ Len(log) \in Nat \ {0}
    BY LogEnds
  <1>2. CASE v = Latest(log)
    BY <1>2 DEF Write
  <1>3. \A k \in 1 .. Len(log) :
          v \in B /\ log[k] \notin I \cup B => \E m \in k .. Len(log) : log[m] \in I
    BY <1>1 DEF Latest
  <1>4. ASSUME NEW d \in {0, 1}, NEW s, Len(s) = Len(log) + 1 - d,
               \A i \in 1 .. Len(log) - d : s[i] = log[i + d], s[Len(log) + 1 - d] = v
        PROVE  \A k, l \in 1 .. Len(s) :
                 k <= l /\ s[l] \in B /\ s[k] \notin I \cup B => \E m \in k .. l : s[m] \in I
    <2> SUFFICES ASSUME NEW k \in 1 .. Len(s), NEW l \in 1 .. Len(s), k <= l,
                        s[l] \in B, s[k] \notin I \cup B
                 PROVE  \E m \in k .. l : s[m] \in I
      OBVIOUS
    <2>1. k # l /\ k \in 1 .. Len(log) - d /\ s[k] = log[k + d]
      BY <1>1, <1>4
    <2>2. CASE l = Len(log) + 1 - d
      <3>1. PICK m \in k + d .. Len(log) : log[m] \in I
        BY <1>1, <1>3, <1>4, <2>1, <2>2
      <3>2. m - d \in k .. l /\ m - d \in 1 .. Len(log) - d
        BY <1>1, <2>1, <2>2, <3>1
      <3>3. s[m - d] = log[m - d + d] /\ m - d + d = m
        BY <1>4, <3>2, <3>1, <1>1
      <3> QED BY <3>1, <3>2, <3>3
    <2>3. CASE l # Len(log) + 1 - d
      <3>0. l \in 1 .. Len(log) - d /\ s[l] = log[l + d]
        BY <1>1, <1>4, <2>3
      <3>1. PICK m \in k + d .. l + d : log[m] \in I
        <4>1. k + d \in 1 .. Len(log) /\ l + d \in 1 .. Len(log) /\ k + d <= l + d
          BY <1>1, <2>1, <3>0
        <4>2. log[l + d] \in B /\ log[k + d] \notin I \cup B
          BY <2>1, <3>0
        <4> QED BY <4>1, <4>2
      <3>2. m - d \in k .. l /\ s[m - d] = log[m]
        BY <1>1, <1>4, <2>1, <3>0, <3>1
      <3> QED BY <3>1, <3>2
    <2> QED BY <2>2, <2>3
  <1>5. CASE v # Latest(log) /\ ~(Len(log) > MaxLag)
    <2>1. Write(log, v) = Append(log, v)
      BY <1>5 DEF Write
    <2>2. /\ Len(Append(log, v)) = Len(log) + 1 - 0
          /\ \A i \in 1 .. Len(log) - 0 : Append(log, v)[i] = log[i + 0]
          /\ Append(log, v)[Len(log) + 1 - 0] = v
      BY <1>1
    <2> QED BY <1>4, <2>1, <2>2
  <1>6. CASE v # Latest(log) /\ Len(log) > MaxLag
    <2> DEFINE s == Tail(log)
    <2>1. Write(log, v) = Append(s, v)
      BY <1>6 DEF Write
    <2>2. s \in Seq(T) /\ Len(s) = Len(log) - 1 /\ \A i \in 1 .. Len(s) : s[i] = log[i + 1]
      BY <1>1
    <2> HIDE DEF s
    <2>3. /\ Len(Append(s, v)) = Len(log) + 1 - 1
          /\ \A i \in 1 .. Len(log) - 1 : Append(s, v)[i] = log[i + 1]
          /\ Append(s, v)[Len(log) + 1 - 1] = v
      BY <1>1, <2>2
    <2> QED BY <1>4, <2>1, <2>3
  <1> QED BY <1>2, <1>5, <1>6

\* ... and so does a delivery.
LEMMA DeliverThrough ==
  ASSUME NEW T, NEW B, NEW I, NEW log \in Logs(T), Len(log) > 1, Through(log, B, I)
  PROVE  Through(Tail(log), B, I)
  <1> USE DEF Through
  <1>1. log \in Seq(T) /\ Len(log) \in Nat \ {0}
    BY LogEnds
  <1> DEFINE s == Tail(log)
  <1>2. Len(s) = Len(log) - 1 /\ \A i \in 1 .. Len(log) - 1 : s[i] = log[i + 1]
    BY <1>1
  <1> HIDE DEF s
  <1>3. ASSUME NEW k \in 1 .. Len(s), NEW l \in 1 .. Len(s), k <= l,
               s[l] \in B, s[k] \notin I \cup B
        PROVE  \E m \in k .. l : s[m] \in I
    <2>1. PICK m \in k + 1 .. l + 1 : log[m] \in I
      <3>1. k + 1 \in 1 .. Len(log) /\ l + 1 \in 1 .. Len(log) /\ k + 1 <= l + 1
        BY <1>1, <1>2, <1>3
      <3>2. log[l + 1] \in B /\ log[k + 1] \notin I \cup B
        BY <1>1, <1>2, <1>3
      <3> QED BY <3>1, <3>2
    <2>2. m - 1 \in k .. l /\ s[m - 1] = log[m]
      BY <1>1, <1>2, <1>3, <2>1
    <2> QED BY <2>1, <2>2
  <1> QED BY <1>3 DEF s
=============================================================================
