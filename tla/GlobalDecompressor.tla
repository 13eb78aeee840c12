-------------------------- MODULE GlobalDecompressor --------------------------
(***************************************************************************)
(* The decompressor that all archives are read with (src/src/lib.rs): a    *)
(* static behind a RwLock, which a thread may replace while others are in  *)
(* the middle of a table.  A call of the decompressor is made under the    *)
(* lock; if it fails, the call panics and the guard goes with it.          *)
(***************************************************************************)
CONSTANTS
  Callers,
  Decompressors,  \* what may be installed
  Default,        \* DefaultDecompressor
  Nothing         \* no decompressor: the thread is in none

ASSUME DefaultIsOne == Default \in Decompressors /\ Nothing \notin Decompressors

VARIABLES
  installed,  \* GLOBAL_DECOMPRESSOR
  pc,         \* per thread: where it is
  wanted,     \* per thread: what it installs
  using       \* per thread: the decompressor it is in

lockVars == <<installed, pc, wanted, using>>

LockInit ==
  /\ installed = Default
  /\ pc = [t \in Callers |-> "idle"]
  /\ wanted = [t \in Callers |-> Default]
  /\ using = [t \in Callers |-> Nothing]

At(t, here) == pc[t] = here
Goes(t, there) == pc' = [pc EXCEPT ![t] = there]

-----------------------------------------------------------------------------
(* std::sync::RwLock.  A read guard is held as long as its thread is at      *)
(* "running" or "failing", a write guard for the one assignment of Install,  *)
(* which is a single step: readers find no writer inside.  The lock has no   *)
(* policy: a writer that waits may or may not keep new readers out.         *)

Holders == {t \in Callers : pc[t] \in {"running", "failing"}}
MayWrite == Holders = {}

-----------------------------------------------------------------------------
Decompress(t) == At(t, "idle") /\ Goes(t, "reading") /\ UNCHANGED <<installed, wanted, using>>

\* read().unwrap(): only a panic of a writer poisons the lock, and the one
\* assignment of set_decompressor does not panic.
Enter(t) ==
  /\ At(t, "reading")
  /\ Goes(t, "running")
  /\ using' = [using EXCEPT ![t] = installed]
  /\ UNCHANGED <<installed, wanted>>

Finish(t) ==
  /\ At(t, "running")
  /\ Goes(t, "idle")
  /\ using' = [using EXCEPT ![t] = Nothing]
  /\ UNCHANGED <<installed, wanted>>

\* The data is none the decompressor knows: unwrap, in the same statement.
Fail(t) == At(t, "running") /\ Goes(t, "failing") /\ UNCHANGED <<installed, wanted, using>>

\* Mutant: a call that failed is tried again under the same guard.
RetryHolding(t) ==
  /\ At(t, "failing")
  /\ Goes(t, "running")
  /\ UNCHANGED <<installed, wanted, using>>

Unwind(t) ==
  /\ At(t, "failing")
  /\ Goes(t, "idle")
  /\ using' = [using EXCEPT ![t] = Nothing]
  /\ UNCHANGED <<installed, wanted>>

SetDecompressor(t, d) ==
  /\ At(t, "idle")
  /\ Goes(t, "setting")
  /\ wanted' = [wanted EXCEPT ![t] = d]
  /\ UNCHANGED <<installed, using>>

\* Mutant: the reference is copied out of the lock before it is used.
InstallAnyTime(t) ==
  /\ At(t, "setting")
  /\ installed' = wanted[t]
  /\ Goes(t, "idle")
  /\ UNCHANGED <<wanted, using>>

Install(t) ==
  /\ At(t, "setting") /\ MayWrite
  /\ installed' = wanted[t]
  /\ Goes(t, "idle")
  /\ UNCHANGED <<wanted, using>>

\* What a thread does that is in the lock, and what the lock grants.
GoesOn(t) == Finish(t) \/ Unwind(t)
GetsIn(t) == Enter(t) \/ Install(t)

\* Threads begin calls as they like.
Begins(t) == Decompress(t) \/ \E d \in Decompressors : SetDecompressor(t, d)

LockNext == \E t \in Callers : Begins(t) \/ Fail(t) \/ GoesOn(t) \/ GetsIn(t)

\* Who is in a decompressor comes out of it, by returning or by unwinding; and as
\* long as somebody can get into the lock, somebody does at last - nobody in
\* particular, since the lock promises no order.
LockFairness ==
  /\ \A t \in Callers : WF_lockVars(GoesOn(t))
  /\ WF_lockVars(\E t \in Callers : GetsIn(t))

LockSpec == LockInit /\ [][LockNext]_lockVars /\ LockFairness

-----------------------------------------------------------------------------
(* Properties.                                                             *)

\* Type correctness of the threads' states.
LockTypeOK ==
  /\ installed \in Decompressors
  /\ pc \in [Callers -> {"idle", "reading", "running", "failing", "setting"}]
  /\ wanted \in [Callers -> Decompressors]
  /\ using \in [Callers -> Decompressors \cup {Nothing}]

\* Once set_decompressor has returned no thread is in another decompressor any
\* more, not even one that has failed and is unwinding: decompress_data calls
\* it under the lock.
OneInUse == \A t \in Callers : using[t] \in {installed, Nothing}

\* Once threads begin no more calls, each call that has begun is over at last: of
\* set_decompressor, whoever reads or fails meanwhile, and of decompress_data,
\* however many writers wait.  (While they go on beginning them, nothing is
\* promised: readers that take turns may keep a writer waiting for ever.)
AllGetThrough ==
  <>[][\A t \in Callers : ~Begins(t)]_lockVars
    => \A t \in Callers : ~At(t, "idle") ~> At(t, "idle")
=============================================================================
