----------------------------- MODULE InodeTable -----------------------------
(***************************************************************************)
(* src/src/inode.rs: the table that gives every path an inode. Threads run *)
(* `allocate` concurrently on two DashMaps; each access to a map is one    *)
(* step, and the two maps are updated in two steps. Entries are never      *)
(* removed.                                                                *)
(***************************************************************************)
EXTENDS Integers, FiniteSets

CONSTANTS
  Threads,   \* threads that may be inside allocate at once
  Paths,     \* paths other than "/" that the mount sees
  Root,      \* the path "/"
  NoPath,    \* a vacant entry of `forward`
  MaxIno,    \* u64::MAX in the code
  Reserved,  \* 100 in the code
  HashVals   \* the values `hash` takes on Paths

INO_ROOT == 1
None     == -1      \* no entry in `reverse`
Inodes   == 0..MaxIno

\* hash_one(path) | 0x2: the hasher is external, bit 1 of its result is set.
Hashes == {h \in Inodes : (h \div 2) % 2 = 1}

ASSUME InodeAssumption ==
  /\ MaxIno \in Nat
  /\ Reserved \in 2..MaxIno
  /\ HashVals \subseteq Hashes
  /\ IsFiniteSet(Paths)
  /\ Root \notin Paths /\ NoPath \notin Paths /\ Root # NoPath

VARIABLES
  hash,              \* the hasher's result for each path
  forward, reverse,  \* the two maps
  bump,              \* counter of the root branch
  pc, path, ino,     \* per thread: step of allocate, its argument, its `ino`
  given              \* history: pairs <<path, inode>> that allocate returned

vars == <<hash, forward, reverse, bump, pc, path, ino, given>>

\* max(self.hash(path), 100)
Start(p) == IF hash[p] > Reserved THEN hash[p] ELSE Reserved

\* Mutants: an addition that overflows, and one that saturates.
overflowing_add(i, n) == i + n
saturating_add(i, n)  == IF i + n > MaxIno THEN MaxIno ELSE i + n

wrapping_add(i, n) == (i + n) % (MaxIno + 1)

Init ==
  /\ hash \in [Paths -> HashVals]
  /\ forward = [i \in Inodes |-> IF i = INO_ROOT THEN Root ELSE NoPath]
  /\ reverse = [p \in Paths \cup {Root} |-> IF p = Root THEN INO_ROOT ELSE None]
  /\ bump = 0
  /\ pc = [t \in Threads |-> "idle"]
  /\ path = [t \in Threads |-> Root]
  /\ ino = [t \in Threads |-> INO_ROOT]
  /\ given = {}

Goto(t, step) == pc' = [pc EXCEPT ![t] = step]

Return(t, i) ==
  /\ Goto(t, "idle")
  /\ given' = given \cup {<<path[t], i>>}

Call(t, p) ==
  /\ pc[t] = "idle"
  /\ Goto(t, "get")
  /\ path' = [path EXCEPT ![t] = p]
  /\ UNCHANGED <<hash, forward, reverse, bump, ino, given>>

Hit(t) ==
  /\ pc[t] = "get" /\ reverse[path[t]] # None
  /\ Return(t, reverse[path[t]])
  /\ UNCHANGED <<hash, forward, reverse, bump, path, ino>>

\* Mutant: `reverse` is written before a slot has been won.
MissEager(t) ==
  /\ pc[t] = "get" /\ reverse[path[t]] = None
  /\ Goto(t, "probe")
  /\ ino' = [ino EXCEPT ![t] = Start(path[t])]
  /\ reverse' = [reverse EXCEPT ![path[t]] = Start(path[t])]
  /\ UNCHANGED <<hash, forward, bump, path, given>>

Miss(t) ==
  /\ pc[t] = "get" /\ reverse[path[t]] = None
  /\ Goto(t, "probe")
  /\ ino' = [ino EXCEPT ![t] = Start(path[t])]
  /\ UNCHANGED <<hash, forward, reverse, bump, path, given>>

\* ino == INO_ROOT: skip ahead by the shared counter.
AvoidRoot(t) ==
  /\ pc[t] = "probe" /\ ino[t] = INO_ROOT
  /\ ino' = [ino EXCEPT ![t] = wrapping_add(INO_ROOT, bump + 1)]
  /\ bump' = bump + 1
  /\ UNCHANGED <<hash, forward, reverse, pc, path, given>>

\* Entry::Occupied by the same path: the entry's lock is held while `reverse`
\* is written.
SamePath(t) ==
  /\ pc[t] = "probe" /\ ino[t] # INO_ROOT
  /\ forward[ino[t]] = path[t]
  /\ reverse' = [reverse EXCEPT ![path[t]] = ino[t]]
  /\ Return(t, ino[t])
  /\ UNCHANGED <<hash, forward, bump, path, ino>>

\* Mutant: an entry of the same path is not recognised.
OthersEntryAny(t) == forward[ino[t]] # NoPath

OthersEntry(t) == forward[ino[t]] \notin {NoPath, path[t]}

Collide(t) ==
  /\ pc[t] = "probe" /\ ino[t] # INO_ROOT
  /\ OthersEntry(t)
  /\ ino' = [ino EXCEPT ![t] = wrapping_add(ino[t], 1)]
  /\ UNCHANGED <<hash, forward, reverse, bump, pc, path, given>>

\* Mutant: forward.insert(ino, path), which replaces an entry of another path.
InsertClobbers(t) ==
  /\ pc[t] = "probe" /\ ino[t] # INO_ROOT
  /\ forward' = [forward EXCEPT ![ino[t]] = path[t]]
  /\ Goto(t, "reverse")
  /\ UNCHANGED <<hash, reverse, bump, path, ino, given>>

\* Entry::Vacant: insert into `forward`; the lock on the entry ends here.
Insert(t) ==
  /\ pc[t] = "probe" /\ ino[t] # INO_ROOT
  /\ forward[ino[t]] = NoPath
  /\ forward' = [forward EXCEPT ![ino[t]] = path[t]]
  /\ Goto(t, "reverse")
  /\ UNCHANGED <<hash, reverse, bump, path, ino, given>>

PutReverse(t) ==
  /\ pc[t] = "reverse"
  /\ reverse' = [reverse EXCEPT ![path[t]] = ino[t]]
  /\ Return(t, ino[t])
  /\ UNCHANGED <<hash, forward, bump, path, ino>>

Allocate(t) == \/ Hit(t) \/ Miss(t) \/ AvoidRoot(t) \/ SamePath(t)
               \/ Collide(t) \/ Insert(t) \/ PutReverse(t)

Next == \E t \in Threads : Allocate(t) \/ \E p \in Paths \cup {Root} : Call(t, p)

Spec == Init /\ [][Next]_vars

\* A thread inside allocate is never descheduled for ever.
FairSpec == Spec /\ \A t \in Threads : WF_vars(Allocate(t))

lookup(i) == forward[i]

-----------------------------------------------------------------------------
\* No probe starts so high that passing every other path would wrap around.
NoWrap ==
  \A h \in HashVals :
    (IF h > Reserved THEN h ELSE Reserved) + Cardinality(Paths) <= MaxIno + 1

\* Every inode in the two maps, in a probe or in a reply is a u64 value: `new`
\* and `allocate` never leave the range of the wrapping counter.
TypeOK ==
  /\ hash \in [Paths -> HashVals]
  /\ forward \in [Inodes -> Paths \cup {Root, NoPath}]
  /\ reverse \in [Paths \cup {Root} -> Inodes \cup {None}]
  /\ bump \in Nat
  /\ pc \in [Threads -> {"idle", "get", "probe", "reverse"}]
  /\ path \in [Threads -> Paths \cup {Root}]
  /\ ino \in [Threads -> Inodes]
  /\ given \subseteq (Paths \cup {Root}) \X Inodes

\* Inodes are stable and unique (docs/path-mapping.md:137-138): whatever
\* threads asked, a path was always given the same inode and no two paths
\* were given one inode.
UniqueInodes ==
  \A g, h \in given : g[1] = h[1] <=> g[2] = h[2]

\* An inode that was handed out leads back to its path: path_of never fails
\* or names another file for an inode the kernel holds.
GivenResolve == \A g \in given : lookup(g[2]) = g[1]

\* `reverse` never points at an entry of `forward` that is vacant or belongs to
\* another path, although the two maps are written one after the other.
ReverseAgrees ==
  \A p \in Paths \cup {Root} : reverse[p] # None => lookup(reverse[p]) = p

\* Every allocate returns, however the hashes collide.
AllocateReturns == \A t \in Threads : pc[t] # "idle" ~> pc[t] = "idle"

=============================================================================
