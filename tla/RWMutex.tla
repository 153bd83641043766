------------------------------- MODULE RWMutex -------------------------------
(***************************************************************************)
(* Go's sync.RWMutex as the indexes and the cache use it (not part of this *)
(* repository).  Lock first claims the mutex, which stops new readers, and *)
(* then waits for the readers it found; Unlock lets in the readers that    *)
(* came to wait in the meantime.                                           *)
(***************************************************************************)
EXTENDS FiniteSets

CONSTANT NoThread   \* no goroutine

FreeMutex == [writer |-> NoThread, readers |-> {}, waiting |-> {}]

\* Lock, up to the point where it waits for readers; another Lock blocks here.
CanClaim(m) == m.writer = NoThread
Claim(m, t) == [m EXCEPT !.writer = t]
WriteLocked(m, t) == m.writer = t /\ m.readers = {}

Unlock(m) == [m EXCEPT !.writer = NoThread, !.readers = m.waiting, !.waiting = {}]

\* RLock, up to the point where it waits for a writer.
RLock(m, t) ==
    IF m.writer = NoThread THEN [m EXCEPT !.readers = @ \cup {t}]
    ELSE [m EXCEPT !.waiting = @ \cup {t}]
ReadLocked(m, t) == t \in m.readers

RUnlock(m, t) == [m EXCEPT !.readers = @ \ {t}]

\* t has not returned from Lock, or not from RLock.
Blocks(m, t) == (m.writer = t /\ m.readers # {}) \/ t \in m.waiting
=============================================================================
