---------------------------- MODULE ScopedProvider ----------------------------
(***************************************************************************)
(* The provider of one scan (app/providers/memoizing.py), shared by the    *)
(* threads of ScanEngine's pool and the main thread: what AWS answered to  *)
(* a listing is remembered for the rest of the scan, errors included, and   *)
(* each (method, region) key has a lock of its own.  The account changes    *)
(* meanwhile.                                                              *)
(*                                                                         *)
(* Finding a key's lock is one step: _locks_guard protects a setdefault.   *)
(* The calls that are passed through (snapshot attributes and locks,       *)
(* prices) keep no state here.                                             *)
(***************************************************************************)
EXTENDS Naturals

CONSTANTS
  Caller,
  Key,       \* (method, region)
  Nobody,    \* the holder of a free lock
  MaxWorld   \* bound: how often the account changes during the scan

ASSUME ScopedProviderAssumption == Nobody \notin Caller /\ MaxWorld \in Nat

VARIABLES
  world,     \* the version of the account
  cache,     \* what is remembered of each key
  holder,    \* who holds the lock of each key
  calls,      \* where each thread is in _memoize
  answers    \* what callers have been given for each key, raised bugs aside

providerVars == <<world, cache, holder, calls, answers>>

\* A listing as of some version of the account, or a ProviderError raised then.
Answer == [kind : {"value", "error"}, world : 0 .. MaxWorld]
Unset == [kind |-> "unset"]
MaybeAnswer == Answer \cup {Unset}
CallRecord ==
  [state  : {"idle", "waiting", "holding", "loading", "loaded"},
   key    : Key,
   answer : MaybeAnswer]

ProviderTypeOK ==
  /\ world \in 0 .. MaxWorld
  /\ cache \in [Key -> MaybeAnswer]
  /\ holder \in [Key -> Caller \cup {Nobody}]
  /\ calls \in [Caller -> CallRecord]
  /\ answers \in [Key -> SUBSET Answer]

ProviderInit ==
  /\ world = 0
  /\ cache = [k \in Key |-> Unset]
  /\ holder = [k \in Key |-> Nobody]
  /\ calls \in [Caller -> [state : {"idle"}, key : Key, answer : {Unset}]]
  /\ answers = [k \in Key |-> {}]

AccountChanges ==
  /\ world < MaxWorld
  /\ world' = world + 1
  /\ UNCHANGED <<cache, holder, calls, answers>>

Call(t, k) ==
  /\ calls[t].state = "idle"
  /\ calls' = [calls EXCEPT ![t] = [state |-> "waiting", key |-> k, answer |-> Unset]]
  /\ UNCHANGED <<world, cache, holder, answers>>

\* Mutant: no lock is taken.
Barge(t) ==
  /\ calls[t].state = "waiting"
  /\ holder' = [holder EXCEPT ![calls[t].key] = t]
  /\ calls' = [calls EXCEPT ![t].state = "holding"]
  /\ UNCHANGED <<world, cache, answers>>

Lock(t) ==
  /\ calls[t].state = "waiting" /\ holder[calls[t].key] = Nobody
  /\ holder' = [holder EXCEPT ![calls[t].key] = t]
  /\ calls' = [calls EXCEPT ![t].state = "holding"]
  /\ UNCHANGED <<world, cache, answers>>

\* A remembered error is raised again.
Recall(t) ==
  LET k == calls[t].key
  IN  /\ calls[t].state = "holding" /\ cache[k] # Unset
      /\ answers' = [answers EXCEPT ![k] = @ \cup {cache[k]}]
      /\ holder' = [holder EXCEPT ![k] = Nobody]
      /\ calls' = [calls EXCEPT ![t].state = "idle"]
      /\ UNCHANGED <<world, cache>>

StartLoad(t) ==
  /\ calls[t].state = "holding" /\ cache[calls[t].key] = Unset
  /\ calls' = [calls EXCEPT ![t].state = "loading"]
  /\ UNCHANGED <<world, cache, holder, answers>>

\* The backend answers for the account as it is now.
Load(t, kind) ==
  /\ calls[t].state = "loading"
  /\ calls' = [calls EXCEPT ![t].state = "loaded",
                          ![t].answer = [kind |-> kind, world |-> world]]
  /\ UNCHANGED <<world, cache, holder, answers>>

\* Mutant: only values are remembered.
RememberForgettingErrors(t) ==
  LET k == calls[t].key
  IN  /\ calls[t].state = "loaded"
      /\ cache' = [cache EXCEPT ![k] = IF calls[t].answer.kind = "error" THEN @ ELSE calls[t].answer]
      /\ answers' = [answers EXCEPT ![k] = @ \cup {calls[t].answer}]
      /\ holder' = [holder EXCEPT ![k] = Nobody]
      /\ calls' = [calls EXCEPT ![t].state = "idle"]
      /\ UNCHANGED world

\* The answer, or the ProviderError, is remembered and the lock released.
Remember(t) ==
  LET k == calls[t].key
  IN  /\ calls[t].state = "loaded"
      /\ cache' = [cache EXCEPT ![k] = calls[t].answer]
      /\ answers' = [answers EXCEPT ![k] = @ \cup {calls[t].answer}]
      /\ holder' = [holder EXCEPT ![k] = Nobody]
      /\ calls' = [calls EXCEPT ![t].state = "idle"]
      /\ UNCHANGED world

\* Mutant: an unexpected exception is retried, with the lock held.
LoadBreaksRetried(t) ==
  /\ calls[t].state = "loading"
  /\ calls' = [calls EXCEPT ![t].state = "holding"]
  /\ UNCHANGED <<world, cache, holder, answers>>

\* Mutant: an unexpected exception is remembered as well.
LoadBreaksRemembered(t) ==
  /\ calls[t].state = "loading"
  /\ cache' = [cache EXCEPT ![calls[t].key] = [kind |-> "exception", world |-> world]]
  /\ holder' = [holder EXCEPT ![calls[t].key] = Nobody]
  /\ calls' = [calls EXCEPT ![t].state = "idle"]
  /\ UNCHANGED <<world, answers>>

\* Any other exception is not remembered; leaving the block releases the lock.
LoadBreaks(t) ==
  /\ calls[t].state = "loading"
  /\ holder' = [holder EXCEPT ![calls[t].key] = Nobody]
  /\ calls' = [calls EXCEPT ![t].state = "idle"]
  /\ UNCHANGED <<world, cache, answers>>

Proceed(t) ==
  \/ Lock(t) \/ Recall(t) \/ StartLoad(t) \/ Remember(t) \/ LoadBreaks(t)
  \/ \E kind \in {"value", "error"} : Load(t, kind)

ProviderNext ==
  \/ AccountChanges
  \/ \E t \in Caller : Proceed(t) \/ \E k \in Key : Call(t, k)

ProviderSpec == ProviderInit /\ [][ProviderNext]_providerVars

\* A thread in a call goes on; a lock that is free again and again is won.
FairProviderSpec ==
  ProviderSpec /\ \A t \in Caller : WF_providerVars(Proceed(t)) /\ SF_providerVars(Lock(t))

-------------------------------------------------------------------------------
\* Everybody who asks during one scan sees the same listing of a region, or the
\* same error: the detectors of a region never disagree about the account.
OneAnswerPerKey == \A k \in Key : \A a, b \in answers[k] : a = b

\* A key is never asked of AWS by two threads at once, nor again once answered.
NoSecondLoad ==
  \A t \in Caller : calls[t].state \in {"loading", "loaded"} =>
    /\ cache[calls[t].key] = Unset
    /\ \A u \in Caller \ {t} :
         calls[u].state \in {"loading", "loaded"} => calls[u].key # calls[t].key

\* Every call returns: the locks block nobody forever.
CallsReturn == \A t \in Caller : calls[t].state # "idle" ~> calls[t].state = "idle"
===============================================================================
