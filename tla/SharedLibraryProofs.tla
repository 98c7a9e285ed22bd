------------------------- MODULE SharedLibraryProofs -------------------------
(***************************************************************************)
(* Proofs that SharedLibrary's safety properties hold for any number of    *)
(* threads and libraries, on every build.                                  *)
(***************************************************************************)
EXTENDS SharedLibrary, TLAPS

USE ConstantsAssumption

\* The initial states satisfy the inductive invariant.
LEMMA InitIInv == Init => IInv
  <1> SUFFICES ASSUME Init PROVE IInv
    OBVIOUS
  <1>1. TypeOK
    BY DEF Init, TypeOK, Kinds, SessionPCs
  <1>2. LockHeld /\ OwnDirectory /\ ErrorReported
    BY DEF Init, LockHeld, OwnDirectory, ErrorReported, SessionPCs
  <1>3. NoDirectory /\ DirectoryReset
    BY DEF Init, NoDirectory, DirectoryReset
  <1> QED
    BY <1>1, <1>2, <1>3 DEF IInv

\* A thread that asks for the loader has nothing of it yet.
LEMMA BeginInv ==
    ASSUME IInv, NEW t \in Threads, NEW k \in Kinds, NEW l \in Libs,
           Begin(t, k, l)
    PROVE  IInv'
  <1> USE DEF Begin
  <1>1. TypeOK'
    BY DEF IInv, TypeOK, SessionPCs, Locks
  <1>2. LockHeld'
    BY DEF IInv, TypeOK, LockHeld, SessionPCs, Locks
  <1>3. OwnDirectory' /\ NoDirectory'
    BY DEF IInv, TypeOK, LockHeld, OwnDirectory, NoDirectory, SessionPCs, Locks
  <1>4. DirectoryReset'
    BY DEF IInv, TypeOK, LockHeld, OwnDirectory, NoDirectory, DirectoryReset,
           SessionPCs, Locks
  <1>5. ErrorReported'
    BY DEF IInv, TypeOK, ErrorReported, SessionPCs, Locks
  <1> QED
    BY <1>1, <1>2, <1>3, <1>4, <1>5 DEF IInv

\* A function called without the lock touches no session.
LEMMA RunUnlockedInv ==
    ASSUME IInv, NEW t \in Threads, NEW b \in BOOLEAN,
           RunUnlocked(t, b)
    PROVE  IInv'
  <1> USE DEF RunUnlocked
  <1>1. TypeOK'
    BY DEF IInv, TypeOK, SessionPCs
  <1>2. LockHeld'
    BY DEF IInv, TypeOK, LockHeld, SessionPCs
  <1>3. OwnDirectory' /\ NoDirectory'
    BY DEF IInv, TypeOK, LockHeld, OwnDirectory, NoDirectory, SessionPCs
  <1>4. DirectoryReset'
    BY DEF IInv, TypeOK, LockHeld, OwnDirectory, NoDirectory, DirectoryReset,
           SessionPCs
  <1>5. ErrorReported'
    BY DEF IInv, TypeOK, ErrorReported, SessionPCs
  <1> QED
    BY <1>1, <1>2, <1>3, <1>4, <1>5 DEF IInv

\* The lock is free when it is taken, so no other session is open.
LEMMA AcquireInv ==
    ASSUME IInv, NEW t \in Threads, Acquire(t)
    PROVE  IInv'
  <1> USE DEF Acquire
  <1>1. TypeOK'
    BY DEF IInv, TypeOK, SessionPCs
  <1>2. LockHeld'
    BY DEF IInv, TypeOK, LockHeld, SessionPCs
  <1>3. OwnDirectory' /\ NoDirectory'
    BY DEF IInv, TypeOK, LockHeld, OwnDirectory, NoDirectory, SessionPCs
  <1>4. DirectoryReset'
    BY DEF IInv, TypeOK, LockHeld, OwnDirectory, NoDirectory, DirectoryReset,
           SessionPCs
  <1>5. ErrorReported'
    BY DEF IInv, TypeOK, ErrorReported, SessionPCs
  <1> QED
    BY <1>1, <1>2, <1>3, <1>4, <1>5 DEF IInv

\* Only the holder of the lock sets the directory.
LEMMA SetSucceedsInv ==
    ASSUME IInv, NEW t \in Threads, SetSucceeds(t)
    PROVE  IInv'
  <1> USE DEF SetSucceeds
  <1>1. TypeOK'
    BY DEF IInv, TypeOK, SessionPCs
  <1>2. LockHeld'
    BY DEF IInv, TypeOK, LockHeld, SessionPCs
  <1>3. OwnDirectory' /\ NoDirectory'
    BY DEF IInv, TypeOK, LockHeld, OwnDirectory, NoDirectory, SessionPCs
  <1>4. DirectoryReset'
    BY DEF IInv, TypeOK, LockHeld, OwnDirectory, NoDirectory, DirectoryReset,
           SessionPCs
  <1>5. ErrorReported'
    BY DEF IInv, TypeOK, ErrorReported, SessionPCs
  <1> QED
    BY <1>1, <1>2, <1>3, <1>4, <1>5 DEF IInv

\* A directory that could not be set is left as it was.
LEMMA SetFailsInv ==
    ASSUME IInv, NEW t \in Threads, SetFails(t)
    PROVE  IInv'
  <1> USE DEF SetFails
  <1>1. TypeOK'
    BY DEF IInv, TypeOK, SessionPCs
  <1>2. LockHeld'
    BY DEF IInv, TypeOK, LockHeld, SessionPCs
  <1>3. OwnDirectory' /\ NoDirectory'
    BY DEF IInv, TypeOK, LockHeld, OwnDirectory, NoDirectory, SessionPCs
  <1>4. DirectoryReset'
    BY DEF IInv, TypeOK, LockHeld, OwnDirectory, NoDirectory, DirectoryReset,
           SessionPCs
  <1>5. ErrorReported'
    BY DEF IInv, TypeOK, ErrorReported, SessionPCs
  <1> QED
    BY <1>1, <1>2, <1>3, <1>4, <1>5 DEF IInv

\* The library's code leaves the directory to its session.
LEMMA RunInv ==
    ASSUME IInv, NEW t \in Threads, NEW b \in BOOLEAN, Run(t, b)
    PROVE  IInv'
  <1> USE DEF Run
  <1>1. TypeOK'
    BY DEF IInv, TypeOK, SessionPCs
  <1>2. LockHeld'
    BY DEF IInv, TypeOK, LockHeld, SessionPCs
  <1>3. OwnDirectory' /\ NoDirectory'
    BY DEF IInv, TypeOK, LockHeld, OwnDirectory, NoDirectory, SessionPCs
  <1>4. DirectoryReset'
    BY DEF IInv, TypeOK, LockHeld, OwnDirectory, NoDirectory, DirectoryReset,
           SessionPCs
  <1>5. ErrorReported'
    BY DEF IInv, TypeOK, ErrorReported, SessionPCs
  <1> QED
    BY <1>1, <1>2, <1>3, <1>4, <1>5 DEF IInv

\* After a reset the directory is the default one.
LEMMA ResetSucceedsInv ==
    ASSUME IInv, NEW t \in Threads, ResetSucceeds(t)
    PROVE  IInv'
  <1> USE DEF ResetSucceeds
  <1>1. TypeOK'
    BY DEF IInv, TypeOK, SessionPCs
  <1>2. LockHeld'
    BY DEF IInv, TypeOK, LockHeld, SessionPCs
  <1>3. OwnDirectory' /\ NoDirectory'
    BY DEF IInv, TypeOK, LockHeld, OwnDirectory, NoDirectory, SessionPCs
  <1>4. DirectoryReset'
    BY DEF IInv, TypeOK, LockHeld, OwnDirectory, NoDirectory, DirectoryReset,
           SessionPCs
  <1>5. ErrorReported'
    BY DEF IInv, TypeOK, ErrorReported, SessionPCs
  <1> QED
    BY <1>1, <1>2, <1>3, <1>4, <1>5 DEF IInv

\* A directory that could not be reset may outlive its session.
LEMMA ResetFailsInv ==
    ASSUME IInv, NEW t \in Threads, ResetFails(t)
    PROVE  IInv'
  <1> USE DEF ResetFails
  <1>1. TypeOK'
    BY DEF IInv, TypeOK, SessionPCs
  <1>2. LockHeld'
    BY DEF IInv, TypeOK, LockHeld, SessionPCs
  <1>3. OwnDirectory' /\ NoDirectory'
    BY DEF IInv, TypeOK, LockHeld, OwnDirectory, NoDirectory, SessionPCs
  <1>4. DirectoryReset'
    BY DEF IInv, TypeOK, LockHeld, OwnDirectory, NoDirectory, DirectoryReset,
           SessionPCs
  <1>5. ErrorReported'
    BY DEF IInv, TypeOK, ErrorReported, SessionPCs
  <1> QED
    BY <1>1, <1>2, <1>3, <1>4, <1>5 DEF IInv

\* Looking up entrypoints touches no directory.
LEMMA LookUpInv ==
    ASSUME IInv, NEW t \in Threads, NEW b \in BOOLEAN, LookUp(t, b)
    PROVE  IInv'
  <1> USE DEF LookUp
  <1>1. TypeOK'
    BY DEF IInv, TypeOK, SessionPCs
  <1>2. LockHeld'
    BY DEF IInv, TypeOK, LockHeld, SessionPCs
  <1>3. OwnDirectory' /\ NoDirectory'
    BY DEF IInv, TypeOK, LockHeld, OwnDirectory, NoDirectory, SessionPCs
  <1>4. DirectoryReset'
    BY DEF IInv, TypeOK, LockHeld, OwnDirectory, NoDirectory, DirectoryReset,
           SessionPCs
  <1>5. ErrorReported'
    BY DEF IInv, TypeOK, ErrorReported, SessionPCs
  <1> QED
    BY <1>1, <1>2, <1>3, <1>4, <1>5 DEF IInv

\* The session is over: the directory was reset, or the reset failed.
LEMMA ReleaseInv ==
    ASSUME IInv, NEW t \in Threads, Release(t)
    PROVE  IInv'
  <1> USE DEF Release
  <1>1. TypeOK'
    BY DEF IInv, TypeOK, SessionPCs
  <1>2. LockHeld'
    BY DEF IInv, TypeOK, LockHeld, SessionPCs
  <1>3. OwnDirectory' /\ NoDirectory'
    BY DEF IInv, TypeOK, LockHeld, OwnDirectory, NoDirectory, SessionPCs
  <1>4. DirectoryReset'
    BY DEF IInv, TypeOK, LockHeld, OwnDirectory, NoDirectory, DirectoryReset,
           SessionPCs
  <1>5. ErrorReported'
    BY DEF IInv, TypeOK, ErrorReported, SessionPCs
  <1> QED
    BY <1>1, <1>2, <1>3, <1>4, <1>5 DEF IInv

\* Every step keeps the inductive invariant: one case per action.
LEMMA NextIInv == IInv /\ [Next]_vars => IInv'
  <1> SUFFICES ASSUME IInv, [Next]_vars PROVE IInv'
    OBVIOUS
  <1>1. CASE UNCHANGED vars
    BY <1>1 DEF vars, IInv, TypeOK, LockHeld, OwnDirectory, NoDirectory,
                DirectoryReset, ErrorReported
  <1>2. CASE Next
    <2>1. PICK t \in Threads :
              \/ \E k \in Kinds, l \in Libs : Begin(t, k, l)
              \/ \E b \in BOOLEAN : RunUnlocked(t, b)
              \/ Acquire(t)
              \/ InSession(t)
      BY <1>2 DEF Next
    <2>2. CASE \E k \in Kinds, l \in Libs : Begin(t, k, l)
      BY <2>2, BeginInv
    <2>3. CASE \E b \in BOOLEAN : RunUnlocked(t, b)
      BY <2>3, RunUnlockedInv
    <2>4. CASE Acquire(t)
      BY <2>4, AcquireInv
    <2>5. CASE InSession(t)
      BY <2>5, SetSucceedsInv, SetFailsInv, RunInv, ResetSucceedsInv,
         ResetFailsInv, LookUpInv, ReleaseInv DEF InSession
    <2> QED
      BY <2>1, <2>2, <2>3, <2>4, <2>5
  <1> QED
    BY <1>1, <1>2 DEF Next

\* The inductive invariant holds in every reachable state.
THEOREM Invariance == Spec => []IInv
  <1> QED
    BY InitIInv, NextIInv, PTL DEF Spec

\* Every variable keeps its type, and no library is kept past its session.
THEOREM TypeCorrect == Spec => []TypeOK
  <1>1. IInv => TypeOK
    BY DEF IInv
  <1> QED
    BY <1>1, Invariance, PTL

\* No two threads are inside a session: each of them would be the one holder
\* of the lock.
THEOREM Exclusion == Spec => []MutualExclusion
  <1>1. IInv => MutualExclusion
    BY DEF IInv, LockHeld, MutualExclusion
  <1> QED
    BY <1>1, Invariance, PTL

\* A library's code runs with its own directory set, however many threads load
\* libraries at the same time.
THEOREM OwnDirectorySeen == Spec => []CodeSeesOwnDirectory
  <1>1. IInv => CodeSeesOwnDirectory
    BY DEF IInv, OwnDirectory, CodeSeesOwnDirectory
  <1> QED
    BY <1>1, Invariance, PTL

\* Outside sessions the directory is the default one unless a reset failed.
THEOREM DirectoryIsReset == Spec => []DirectoryReset
  <1>1. IInv => DirectoryReset
    BY DEF IInv
  <1> QED
    BY <1>1, Invariance, PTL

\* A session in which a call failed returns an error.
THEOREM ErrorsReported == Spec => []ErrorReported
  <1>1. IInv => ErrorReported
    BY DEF IInv
  <1> QED
    BY <1>1, Invariance, PTL
=============================================================================
