-------------------------- MODULE InodeTableProofs --------------------------
(***************************************************************************)
(* Proofs about InodeTable for any number of threads and paths, any hash   *)
(* values and any width of inodes, as long as no probe can wrap around.    *)
(*                                                                         *)
(* The argument is the one of linear probing without deletion: between the *)
(* slot where the probe of a path starts and the slot the path occupies,   *)
(* no slot is vacant, and none that a running probe has passed belongs to  *)
(* the path it looks for. So a probe that meets a vacant slot may take it: *)
(* the path has no slot yet.                                               *)
(***************************************************************************)
EXTENDS InodeTable, FiniteSetTheorems, TLAPS

\* Only the root has the root's slot, and it has no other.
RootPinned ==
  /\ forward[INO_ROOT] = Root
  /\ reverse[Root] = INO_ROOT
  /\ \A i \in Inodes : forward[i] = Root => i = INO_ROOT

\* A path occupies at most one slot.
OneSlot ==
  \A i, j \in Inodes : forward[i] = forward[j] /\ forward[i] # NoPath => i = j

\* No slot is vacant between the start of a path's probe and its slot.
Chained ==
  \A i \in Inodes : forward[i] \in Paths =>
    /\ Start(forward[i]) <= i
    /\ \A j \in Start(forward[i])..i : forward[j] # NoPath

\* The slots a running probe has passed belong to other paths.
Probed ==
  \A t \in Threads : pc[t] = "probe" =>
    /\ path[t] \in Paths
    /\ Start(path[t]) <= ino[t]
    /\ \A j \in Start(path[t])..(ino[t] - 1) : forward[j] \notin {NoPath, path[t]}

\* Between its two writes a thread owns the slot it won.
Won ==
  \A t \in Threads : pc[t] = "reverse" => path[t] \in Paths /\ forward[ino[t]] = path[t]

\* The inductive invariant.
IInv ==
  /\ TypeOK /\ RootPinned /\ OneSlot /\ Chained
  /\ Probed /\ Won /\ ReverseAgrees /\ GivenResolve

-----------------------------------------------------------------------------
\* A sum below the modulus is not reduced.
LEMMA ModSmall == ASSUME NEW a \in Nat, NEW m \in Nat, a < m PROVE a % m = a
  BY Z3

\* A reduced sum is an inode.
LEMMA AddIsInode ==
  ASSUME NEW i \in Nat, NEW n \in Nat PROVE wrapping_add(i, n) \in Inodes
  BY InodeAssumption, Z3 DEF wrapping_add, Inodes

\* Where a probe starts.
LEMMA StartType ==
  ASSUME TypeOK, NEW p \in Paths
  PROVE  /\ Start(p) \in Inodes
         /\ Start(p) >= Reserved
         /\ Reserved >= 2
<1>1. \A h \in HashVals : h \in Inodes
  <2>1. \A h \in Hashes : h \in Inodes
    BY Zenon DEF Hashes
  <2> QED BY <2>1, InodeAssumption
<1>2. hash[p] \in Inodes
  BY <1>1 DEF TypeOK
<1> QED BY <1>2, InodeAssumption DEF Start, Inodes

\* The invariant of type correctness: a path that misses in `reverse` is not "/".
TRoot == TypeOK /\ reverse[Root] # None

\* Every step of `allocate` keeps the types.
LEMMA TypeStep == TRoot /\ [Next]_vars => TRoot'
<1> SUFFICES ASSUME TRoot, [Next]_vars PROVE TRoot'
  OBVIOUS
<1>n. None \notin Inodes
  BY InodeAssumption DEF None, Inodes
<1>1. ASSUME NEW t \in Threads, NEW p \in Paths \cup {Root}, Call(t, p) PROVE TRoot'
  BY <1>1 DEF TRoot, TypeOK, Call, Goto
<1>2. ASSUME NEW t \in Threads, Hit(t) PROVE TRoot'
  BY <1>2 DEF TRoot, TypeOK, Hit, Return, Goto
<1>3. ASSUME NEW t \in Threads, Miss(t) PROVE TRoot'
  <2>1. path[t] \in Paths
    BY <1>3 DEF TRoot, TypeOK, Miss
  <2>2. Start(path[t]) \in Inodes
    BY <2>1, StartType DEF TRoot
  <2> QED BY <1>3, <2>2 DEF TRoot, TypeOK, Miss, Goto
<1>4. ASSUME NEW t \in Threads, AvoidRoot(t) PROVE TRoot'
  <2>1. wrapping_add(INO_ROOT, bump + 1) \in Inodes
    BY AddIsInode DEF TRoot, TypeOK, INO_ROOT
  <2> QED BY <1>4, <2>1 DEF TRoot, TypeOK, AvoidRoot
<1>5. ASSUME NEW t \in Threads, SamePath(t) PROVE TRoot'
  BY <1>n, <1>5 DEF TRoot, TypeOK, SamePath, Return, Goto
<1>6. ASSUME NEW t \in Threads, Collide(t) PROVE TRoot'
  <2>1. ino[t] \in Nat
    BY InodeAssumption DEF TRoot, TypeOK, Inodes
  <2>2. wrapping_add(ino[t], 1) \in Inodes
    BY <2>1, AddIsInode
  <2> QED BY <1>6, <2>2 DEF TRoot, TypeOK, Collide
<1>7. ASSUME NEW t \in Threads, Insert(t) PROVE TRoot'
  BY <1>7 DEF TRoot, TypeOK, Insert, Goto
<1>8. ASSUME NEW t \in Threads, PutReverse(t) PROVE TRoot'
  BY <1>n, <1>8 DEF TRoot, TypeOK, PutReverse, Return, Goto
<1>9. CASE UNCHANGED vars
  BY <1>9 DEF TRoot, TypeOK, vars
<1> QED BY <1>1, <1>2, <1>3, <1>4, <1>5, <1>6, <1>7, <1>8, <1>9 DEF Next, Allocate

\* Type correctness, with or without wrap-around: every inode the arithmetic of
\* `allocate` produces fits its type.
THEOREM TypeCorrect == Spec => []TypeOK
<1>1. Init => TRoot
  BY InodeAssumption DEF Init, TRoot, TypeOK, Inodes, None, INO_ROOT
<1>2. TRoot => TypeOK
  BY DEF TRoot
<1> QED BY <1>1, <1>2, TypeStep, PTL DEF Spec

-----------------------------------------------------------------------------
\* A probe that has passed only slots of other paths, each of which has one
\* slot, is still below the last inode: there are not enough paths to wrap.
LEMMA ProbeStaysBelow ==
  ASSUME NoWrap, TypeOK, RootPinned, OneSlot,
         NEW p \in Paths, NEW i \in Inodes, Start(p) <= i,
         \A j \in Start(p)..i : forward[j] \notin {NoPath, p}
  PROVE  i + 1 <= MaxIno
<1> DEFINE S == Start(p)..i
           T == Paths \ {p}
           f == [j \in S |-> forward[j]]
<1>0. Start(p) \in Inodes /\ Start(p) >= 2
  BY StartType, InodeAssumption DEF Inodes
<1>1. \A j \in S : j \in Inodes /\ j # INO_ROOT
  BY <1>0, InodeAssumption DEF Inodes, INO_ROOT
<1>2. \A j \in S : forward[j] \in T
  BY <1>1 DEF TypeOK, RootPinned
<1>3. f \in Injection(S, T)
  <2>1. f \in [S -> T]
    BY <1>2
  <2>2. \A j, k \in S : f[j] = f[k] => j = k
    BY <1>1 DEF OneSlot
  <2> QED BY <2>1, <2>2 DEF Injection, IsInjective
<1>4. IsFiniteSet(T) /\ Cardinality(T) = Cardinality(Paths) - 1
  BY FS_RemoveElement, InodeAssumption
<1>5. Cardinality(S) <= Cardinality(T)
  <2> HIDE DEF S, T, f
  <2> QED BY <1>3, <1>4, FS_Injection
<1>6. Cardinality(S) = i - Start(p) + 1
  <2>1. Start(p) \in Int /\ i \in Int /\ ~(Start(p) > i)
    BY <1>0 DEF Inodes
  <2> QED BY <2>1, FS_Interval
<1>7. Start(p) + Cardinality(Paths) <= MaxIno + 1
  BY DEF NoWrap, Start, TypeOK
<1>8. Cardinality(Paths) \in Nat
  BY FS_CardinalityType, InodeAssumption
<1> HIDE DEF S, T
<1> QED BY <1>0, <1>4, <1>5, <1>6, <1>7, <1>8, InodeAssumption DEF Inodes

\* The inductive invariant holds of a new table.
LEMMA InitInv == Init => IInv
<1> SUFFICES ASSUME Init PROVE IInv
  OBVIOUS
<1>1. TypeOK
  BY InodeAssumption DEF Init, TypeOK, Inodes, None, INO_ROOT
<1>2. RootPinned /\ OneSlot /\ Chained
  BY InodeAssumption DEF Init, RootPinned, OneSlot, Chained, Inodes, INO_ROOT
<1>3. Probed /\ Won /\ GivenResolve
  BY DEF Init, Probed, Won, GivenResolve
<1>4. ReverseAgrees
  BY InodeAssumption DEF Init, ReverseAgrees, lookup, Inodes, INO_ROOT
<1> QED BY <1>1, <1>2, <1>3, <1>4 DEF IInv

\* Every step of `allocate` keeps the inductive invariant.
LEMMA StepInv == NoWrap /\ IInv /\ [Next]_vars => IInv'
<1> SUFFICES ASSUME NoWrap, IInv, [Next]_vars PROVE IInv'
  OBVIOUS
<1>0. TypeOK'
  BY TypeStep DEF IInv, TRoot, RootPinned, None, INO_ROOT
<1>n. None \notin Inodes /\ INO_ROOT \in Inodes
  BY InodeAssumption DEF None, Inodes, INO_ROOT
<1>s. hash' = hash
  BY DEF Next, Allocate, Call, Hit, Miss, AvoidRoot, SamePath, Collide, Insert, PutReverse, vars
\* What a step that writes neither map keeps.
<1>k. ASSUME UNCHANGED <<forward, reverse>>
      PROVE  RootPinned' /\ OneSlot' /\ Chained' /\ ReverseAgrees'
  BY <1>k, <1>s DEF IInv, RootPinned, OneSlot, Chained, ReverseAgrees, Start, lookup
<1>1. ASSUME NEW t \in Threads, NEW p \in Paths \cup {Root}, Call(t, p) PROVE IInv'
  <2>1. Probed' /\ Won' /\ GivenResolve'
    BY <1>1, <1>s DEF IInv, TypeOK, Call, Goto, Probed, Won, GivenResolve, lookup, Start
  <2> QED BY <1>0, <1>1, <1>k, <2>1 DEF IInv, Call
<1>2. ASSUME NEW t \in Threads, Hit(t) PROVE IInv'
  <2>1. Probed' /\ Won'
    BY <1>2, <1>s DEF IInv, TypeOK, Hit, Return, Goto, Probed, Won, Start
  <2>2. GivenResolve'
    BY <1>2 DEF IInv, TypeOK, Hit, Return, GivenResolve, ReverseAgrees, lookup
  <2> QED BY <1>0, <1>2, <1>k, <2>1, <2>2 DEF IInv, Hit
<1>3. ASSUME NEW t \in Threads, Miss(t) PROVE IInv'
  <2>1. path[t] \in Paths
    BY <1>3, <1>n DEF IInv, TypeOK, Miss, RootPinned
  <2>2. Start(path[t]) \in Inodes
    BY <2>1, StartType DEF IInv
  <2>3. Start(path[t])..(Start(path[t]) - 1) = {}
    BY <2>2 DEF Inodes
  <2>4. Probed'
    <3> SUFFICES ASSUME NEW u \in Threads, pc'[u] = "probe"
                 PROVE  /\ path'[u] \in Paths
                        /\ Start(path[u])' <= ino'[u]
                        /\ \A j \in Start(path[u])'..(ino'[u] - 1) : forward'[j] \notin {NoPath, path'[u]}
      BY DEF Probed
    <3>1. CASE u = t
      BY <1>3, <1>s, <2>1, <2>2, <2>3, <3>1 DEF IInv, TypeOK, Miss, Start, Inodes
    <3>2. CASE u # t
      BY <1>3, <1>s, <3>2 DEF IInv, TypeOK, Miss, Goto, Probed, Start
    <3> QED BY <3>1, <3>2
  <2>5. Won' /\ GivenResolve'
    BY <1>3 DEF IInv, TypeOK, Miss, Goto, Won, GivenResolve, lookup
  <2> QED BY <1>0, <1>3, <1>k, <2>4, <2>5 DEF IInv, Miss
<1>4. ASSUME NEW t \in Threads, AvoidRoot(t) PROVE IInv'
  <2>1. path[t] \in Paths /\ Start(path[t]) <= INO_ROOT
    BY <1>4 DEF IInv, AvoidRoot, Probed
  <2> QED BY <2>1, StartType, InodeAssumption DEF IInv, INO_ROOT, Inodes
<1>5. ASSUME NEW t \in Threads, SamePath(t) PROVE IInv'
  <2>1. path[t] \in Paths /\ ino[t] \in Inodes /\ forward[ino[t]] = path[t]
    BY <1>5 DEF IInv, TypeOK, SamePath, Probed
  <2>2. RootPinned' /\ OneSlot' /\ Chained'
    BY <1>5, <1>s, <2>1, InodeAssumption
       DEF IInv, TypeOK, SamePath, RootPinned, OneSlot, Chained, Start
  <2>3. Probed' /\ Won'
    BY <1>5, <1>s DEF IInv, TypeOK, SamePath, Return, Goto, Probed, Won, Start
  <2>4. ReverseAgrees' /\ GivenResolve'
    BY <1>5, <2>1 DEF IInv, TypeOK, SamePath, Return, ReverseAgrees, GivenResolve, lookup
  <2> QED BY <1>0, <2>2, <2>3, <2>4 DEF IInv
<1>6. ASSUME NEW t \in Threads, Collide(t) PROVE IInv'
  <2>1. /\ path[t] \in Paths /\ ino[t] \in Inodes
        /\ Start(path[t]) \in Inodes /\ Start(path[t]) <= ino[t]
    BY <1>6, StartType DEF IInv, TypeOK, Collide, Probed
  <2>2. \A j \in Start(path[t])..ino[t] : forward[j] \notin {NoPath, path[t]}
    <3>1. \A j \in Start(path[t])..(ino[t] - 1) : forward[j] \notin {NoPath, path[t]}
      BY <1>6 DEF IInv, Collide, Probed
    <3>2. forward[ino[t]] \notin {NoPath, path[t]}
      BY <1>6 DEF Collide, OthersEntry
    <3> QED BY <2>1, <3>1, <3>2 DEF Inodes
  <2>3. ino[t] + 1 <= MaxIno
    BY <2>1, <2>2, ProbeStaysBelow DEF IInv
  <2>4. ino'[t] = ino[t] + 1
    <3>1. ino[t] + 1 \in Nat /\ MaxIno + 1 \in Nat /\ ino[t] + 1 < MaxIno + 1
      BY <2>1, <2>3, InodeAssumption DEF Inodes
    <3>2. (ino[t] + 1) % (MaxIno + 1) = ino[t] + 1
      BY <3>1, ModSmall
    <3> QED BY <1>6, <3>2 DEF IInv, TypeOK, Collide, wrapping_add
  <2>5. Probed'
    <3> SUFFICES ASSUME NEW u \in Threads, pc'[u] = "probe"
                 PROVE  /\ path'[u] \in Paths
                        /\ Start(path[u])' <= ino'[u]
                        /\ \A j \in Start(path[u])'..(ino'[u] - 1) : forward'[j] \notin {NoPath, path'[u]}
      BY DEF Probed
    <3>1. CASE u = t
      BY <1>6, <1>s, <2>1, <2>2, <2>4, <3>1 DEF Collide, Start, Inodes
    <3>2. CASE u # t
      BY <1>6, <1>s, <3>2 DEF IInv, TypeOK, Collide, Probed, Start
    <3> QED BY <3>1, <3>2
  <2>6. Won' /\ GivenResolve'
    BY <1>6 DEF IInv, TypeOK, Collide, Won, GivenResolve, lookup
  <2> QED BY <1>0, <1>6, <1>k, <2>5, <2>6 DEF IInv, Collide
<1>7. ASSUME NEW t \in Threads, Insert(t) PROVE IInv'
  <2> DEFINE i == ino[t]
             p == path[t]
  <2>1. /\ p \in Paths /\ i \in Inodes /\ i # INO_ROOT
        /\ Start(p) \in Inodes /\ Start(p) <= i
        /\ forward[i] = NoPath
        /\ \A j \in Start(p)..(i - 1) : forward[j] \notin {NoPath, p}
    BY <1>7, StartType DEF IInv, TypeOK, Insert, Probed
  <2>2. forward' = [forward EXCEPT ![i] = p] /\ UNCHANGED <<reverse, path, ino, given>>
    BY <1>7 DEF Insert
  \* The path has no slot yet: its chain would pass through the vacant slot i.
  <2>3. \A k \in Inodes : forward[k] # p
    <3> SUFFICES ASSUME NEW k \in Inodes, forward[k] = p PROVE FALSE
      OBVIOUS
    <3>1. Start(p) <= k /\ \A j \in Start(p)..k : forward[j] # NoPath
      BY <2>1 DEF IInv, Chained
    <3>2. CASE k < i
      BY <2>1, <3>1, <3>2 DEF Inodes
    <3>3. CASE k >= i
      BY <2>1, <3>1, <3>3 DEF Inodes
    <3> QED BY <2>1, <3>2, <3>3, InodeAssumption DEF Inodes
  <2>4. \A k \in Inodes : forward'[k] = IF k = i THEN p ELSE forward[k]
    BY <2>1, <2>2 DEF IInv, TypeOK
  <2>5. \A k \in Inodes : forward[k] # NoPath => forward'[k] = forward[k]
    BY <2>1, <2>4
  <2> HIDE DEF i, p
  <2>6. RootPinned'
    BY <1>n, <2>1, <2>2, <2>4, InodeAssumption DEF IInv, RootPinned
  <2>7. OneSlot'
    BY <2>1, <2>3, <2>4 DEF IInv, OneSlot
  <2>8. Chained'
    <3> SUFFICES ASSUME NEW k \in Inodes, forward'[k] \in Paths
                 PROVE  /\ Start(forward'[k]) <= k
                        /\ \A j \in Start(forward'[k])..k : forward'[j] # NoPath
      BY <1>s DEF Chained, Start
    <3>0. Start(forward'[k]) \in Inodes
      BY StartType DEF IInv
    <3>1. CASE k = i
      BY <2>1, <2>4, <3>0, <3>1, InodeAssumption DEF Inodes
    <3>2. CASE k # i
      <4>1. forward'[k] = forward[k]
        BY <2>4, <3>2
      <4>2. \A j \in Start(forward'[k])..k : j \in Inodes
        BY <3>0, InodeAssumption DEF Inodes
      <4> QED BY <2>5, <4>1, <4>2 DEF IInv, Chained
    <3> QED BY <3>1, <3>2
  <2>9. Probed'
    <3> SUFFICES ASSUME NEW u \in Threads, pc'[u] = "probe"
                 PROVE  /\ path[u] \in Paths
                        /\ Start(path[u]) <= ino[u]
                        /\ \A j \in Start(path[u])..(ino[u] - 1) : forward'[j] \notin {NoPath, path[u]}
      BY <1>s, <2>2 DEF Probed, Start
    <3>1. pc[u] = "probe"
      BY <1>7 DEF IInv, TypeOK, Insert, Goto
    <3>2. /\ path[u] \in Paths /\ ino[u] \in Inodes /\ Start(path[u]) <= ino[u]
          /\ \A j \in Start(path[u])..(ino[u] - 1) : forward[j] \notin {NoPath, path[u]}
      BY <3>1 DEF IInv, TypeOK, Probed
    <3>3. \A j \in Start(path[u])..(ino[u] - 1) : j \in Inodes
      <4>1. Start(path[u]) \in Inodes
        BY <3>2, StartType DEF IInv
      <4> QED BY <3>2, <4>1, InodeAssumption DEF Inodes
    <3> QED BY <2>5, <3>2, <3>3
  <2>10. Won'
    <3> SUFFICES ASSUME NEW u \in Threads, pc'[u] = "reverse"
                 PROVE  path[u] \in Paths /\ forward'[ino[u]] = path[u]
      BY <2>2 DEF Won
    <3>1. CASE u = t
      BY <2>1, <2>4, <3>1 DEF i, p
    <3>2. CASE u # t
      BY <1>7, <2>5, <3>2, InodeAssumption DEF IInv, TypeOK, Insert, Goto, Won
    <3> QED BY <3>1, <3>2
  <2>11. ReverseAgrees'
    BY <2>2, <2>5, InodeAssumption DEF IInv, TypeOK, ReverseAgrees, lookup
  <2>12. GivenResolve'
    BY <2>2, <2>5, InodeAssumption DEF IInv, TypeOK, GivenResolve, lookup
  <2> QED BY <1>0, <2>6, <2>7, <2>8, <2>9, <2>10, <2>11, <2>12 DEF IInv
<1>8. ASSUME NEW t \in Threads, PutReverse(t) PROVE IInv'
  <2>1. path[t] \in Paths /\ ino[t] \in Inodes /\ forward[ino[t]] = path[t]
    BY <1>8 DEF IInv, TypeOK, PutReverse, Won
  <2>2. RootPinned' /\ OneSlot' /\ Chained'
    BY <1>8, <1>s, <2>1, InodeAssumption
       DEF IInv, TypeOK, PutReverse, RootPinned, OneSlot, Chained, Start
  <2>3. Probed' /\ Won'
    BY <1>8, <1>s DEF IInv, TypeOK, PutReverse, Return, Goto, Probed, Won, Start
  <2>4. ReverseAgrees' /\ GivenResolve'
    BY <1>8, <2>1 DEF IInv, TypeOK, PutReverse, Return, ReverseAgrees, GivenResolve, lookup
  <2> QED BY <1>0, <2>2, <2>3, <2>4 DEF IInv
<1>9. CASE UNCHANGED vars
  BY <1>0, <1>k, <1>9 DEF vars, IInv, Probed, Won, GivenResolve, lookup, Start
<1> QED BY <1>1, <1>2, <1>3, <1>4, <1>5, <1>6, <1>7, <1>8, <1>9 DEF Next, Allocate

\* As long as no probe can wrap around, inodes are stable and unique for any
\* number of threads inside `allocate`: the contract the kernel's caches rest on.
THEOREM InodesUnique == ASSUME NoWrap PROVE Spec => []UniqueInodes
<1>1. IInv => UniqueInodes
  BY InodeAssumption DEF IInv, TypeOK, OneSlot, GivenResolve, UniqueInodes, lookup
<1>2. IInv /\ [Next]_vars => IInv'
  BY StepInv
<1> QED BY <1>1, <1>2, InitInv, PTL DEF Spec

\* Under the same condition every inode handed out leads back to its path: path_of
\* never names another file.
THEOREM InodesResolve == ASSUME NoWrap PROVE Spec => []GivenResolve
<1>1. IInv => GivenResolve
  BY DEF IInv
<1>2. IInv /\ [Next]_vars => IInv'
  BY StepInv
<1> QED BY <1>1, <1>2, InitInv, PTL DEF Spec

\* Under the same condition `reverse` always agrees with `forward`, although the two
\* maps are written one after the other.
THEOREM MapsAgree == ASSUME NoWrap PROVE Spec => []ReverseAgrees
<1>1. IInv => ReverseAgrees
  BY DEF IInv
<1>2. IInv /\ [Next]_vars => IInv'
  BY StepInv
<1> QED BY <1>1, <1>2, InitInv, PTL DEF Spec

-----------------------------------------------------------------------------
(* One request at a time, as fuser dispatches them. Nothing is asked of the *)
(* hashes then: a path without an entry in `reverse` has no slot at all, so *)
(* a probe that wraps around may still take whatever vacant slot it meets.  *)

\* At most one thread runs allocate.
Serial == \A s, t \in Threads : s = t

\* A path has a slot exactly if `reverse` knows it, but for the moment between the
\* two writes.
Mapped ==
  \A i \in Inodes : forward[i] # NoPath =>
    \/ reverse[forward[i]] = i
    \/ \E t \in Threads : pc[t] = "reverse" /\ path[t] = forward[i] /\ ino[t] = i

\* A thread that probes, or has just won a slot, looks for a path that has none.
Unmapped ==
  \A t \in Threads :
    /\ pc[t] \in {"probe", "reverse"} => reverse[path[t]] = None
    /\ pc[t] = "reverse" => forward[ino[t]] = path[t]

\* What was given out is what `reverse` says.
GivenStays == \A g \in given : reverse[g[1]] = g[2]

SInv == TRoot /\ ReverseAgrees /\ Mapped /\ Unmapped /\ GivenStays

\* The serial invariant holds of a table that was just built.
LEMMA SerialInit == Init => SInv
<1> SUFFICES ASSUME Init PROVE SInv
  OBVIOUS
<1>1. TRoot
  BY InodeAssumption DEF Init, TRoot, TypeOK, Inodes, None, INO_ROOT
<1>2. INO_ROOT \in Inodes
  BY InodeAssumption DEF Inodes, INO_ROOT
<1>3. ReverseAgrees /\ Mapped /\ Unmapped /\ GivenStays
  BY <1>2, InodeAssumption DEF Init, ReverseAgrees, Mapped, Unmapped, GivenStays, lookup
<1> QED BY <1>1, <1>3 DEF SInv

\* One thread's steps keep it, wherever its probes go.
LEMMA SerialStep == ASSUME Serial PROVE SInv /\ [Next]_vars => SInv'
<1> SUFFICES ASSUME SInv, [Next]_vars PROVE SInv'
  OBVIOUS
<1>0. TRoot'
  BY TypeStep DEF SInv
<1>n. None \notin Inodes /\ NoPath \notin Paths \cup {Root}
  BY InodeAssumption DEF None, Inodes
<1>1. ASSUME NEW t \in Threads, NEW p \in Paths \cup {Root}, Call(t, p) PROVE SInv'
  BY <1>0, <1>1 DEF Serial, SInv, TRoot, TypeOK, Call, Goto, ReverseAgrees, Mapped, Unmapped, GivenStays, lookup
<1>2. ASSUME NEW t \in Threads, Hit(t) PROVE SInv'
  BY <1>0, <1>2 DEF Serial, SInv, TRoot, TypeOK, Hit, Return, Goto, ReverseAgrees, Mapped, Unmapped, GivenStays, lookup
<1>3. ASSUME NEW t \in Threads, Miss(t) PROVE SInv'
  BY <1>0, <1>3 DEF Serial, SInv, TRoot, TypeOK, Miss, Goto, ReverseAgrees, Mapped, Unmapped, GivenStays, lookup
<1>4. ASSUME NEW t \in Threads, AvoidRoot(t) \/ Collide(t) PROVE SInv'
  <2>1. UNCHANGED <<forward, reverse, pc, path, given>> /\ pc[t] = "probe"
        /\ \A s \in Threads : s = t
    BY <1>4 DEF AvoidRoot, Collide, Serial
  <2> QED BY <1>0, <2>1 DEF SInv, ReverseAgrees, Mapped, Unmapped, GivenStays, lookup
<1>5. ASSUME NEW t \in Threads, SamePath(t) PROVE FALSE
  <2>1. path[t] # NoPath /\ ino[t] \in Inodes /\ forward[ino[t]] = path[t] /\ pc[t] = "probe"
    BY <1>5, <1>n DEF SamePath, SInv, TRoot, TypeOK
  <2> QED BY <2>1, <1>n DEF SInv, Mapped, Unmapped, Serial
<1>6. ASSUME NEW t \in Threads, Insert(t) PROVE SInv'
  <2>1. /\ forward' = [forward EXCEPT ![ino[t]] = path[t]] /\ forward[ino[t]] = NoPath
        /\ UNCHANGED <<reverse, path, ino, given>> /\ pc[t] = "probe" /\ pc'[t] = "reverse"
        /\ ino[t] \in Inodes /\ path[t] \in Paths \cup {Root}
        /\ \A s \in Threads : s = t
    BY <1>6 DEF Insert, Goto, Serial, SInv, TRoot, TypeOK
  <2>2. \A i \in Inodes : forward'[i] = IF i = ino[t] THEN path[t] ELSE forward[i]
    BY <2>1 DEF SInv, TRoot, TypeOK
  <2>3. ReverseAgrees'
    <3> SUFFICES ASSUME NEW p \in Paths \cup {Root}, reverse[p] # None
                 PROVE  forward'[reverse[p]] = p
      BY <2>1 DEF ReverseAgrees, lookup
    <3>1. reverse[p] \in Inodes /\ forward[reverse[p]] = p
      BY DEF SInv, TRoot, TypeOK, ReverseAgrees, lookup
    <3> QED BY <3>1, <2>1, <2>2, <1>n
  <2>4. Mapped'
    BY <2>1, <2>2 DEF SInv, Mapped
  <2>5. Unmapped' /\ GivenStays'
    BY <2>1, <2>2 DEF SInv, Unmapped, GivenStays
  <2> QED BY <1>0, <2>3, <2>4, <2>5 DEF SInv
<1>7. ASSUME NEW t \in Threads, PutReverse(t) PROVE SInv'
  <2>1. /\ UNCHANGED forward /\ pc[t] = "reverse" /\ pc'[t] = "idle"
        /\ given' = given \cup {<<path[t], ino[t]>>} /\ UNCHANGED <<path, ino>>
        /\ ino[t] \in Inodes /\ path[t] \in Paths \cup {Root}
        /\ \A s \in Threads : s = t
        /\ reverse[path[t]] = None /\ forward[ino[t]] = path[t]
    BY <1>7 DEF PutReverse, Return, Goto, Serial, SInv, TRoot, TypeOK, Unmapped
  <2>2. \A p \in Paths \cup {Root} : reverse'[p] = IF p = path[t] THEN ino[t] ELSE reverse[p]
    BY <1>7 DEF PutReverse, SInv, TRoot, TypeOK
  <2>3. ReverseAgrees' /\ Unmapped'
    BY <2>1, <2>2 DEF SInv, ReverseAgrees, Unmapped, lookup
  <2>4. Mapped'
    <3> SUFFICES ASSUME NEW i \in Inodes, forward[i] # NoPath PROVE reverse'[forward[i]] = i
      BY <2>1 DEF Mapped
    <3>1. forward[i] \in Paths \cup {Root}
      BY DEF SInv, TRoot, TypeOK
    <3> QED BY <3>1, <2>1, <2>2, <1>n DEF SInv, Mapped
  <2>5. GivenStays'
    <3>1. \A g \in given : g[1] \in Paths \cup {Root} /\ g[2] \in Inodes /\ reverse[g[1]] = g[2]
      BY DEF SInv, TRoot, TypeOK, GivenStays
    <3> QED BY <3>1, <2>1, <2>2, <1>n DEF GivenStays
  <2> QED BY <1>0, <2>3, <2>4, <2>5 DEF SInv
<1>8. CASE UNCHANGED vars
  BY <1>0, <1>8 DEF vars, SInv, ReverseAgrees, Mapped, Unmapped, GivenStays, lookup
<1> QED BY <1>1, <1>2, <1>3, <1>4, <1>5, <1>6, <1>7, <1>8 DEF Next, Allocate

\* With one request at a time inodes are stable and unique whatever the hashes
\* are, probes that wrap around and pass the root included.
THEOREM InodesUniqueSerial == ASSUME Serial PROVE Spec => []UniqueInodes
<1>1. SInv => UniqueInodes
  <2> SUFFICES ASSUME SInv, NEW g \in given, NEW h \in given PROVE g[1] = h[1] <=> g[2] = h[2]
    BY DEF UniqueInodes
  <2>1. \A e \in given : e[1] \in Paths \cup {Root} /\ e[2] \in Inodes /\ reverse[e[1]] = e[2]
    BY DEF SInv, TRoot, TypeOK, GivenStays
  <2>2. \A e \in given : forward[e[2]] = e[1]
    BY <2>1, InodeAssumption DEF SInv, ReverseAgrees, lookup, None, Inodes
  <2> QED BY <2>1, <2>2
<1>2. SInv /\ [Next]_vars => SInv'
  BY SerialStep
<1> QED BY <1>1, <1>2, SerialInit, PTL DEF Spec
=============================================================================
