------------------------------ MODULE RWMutex ------------------------------
(* Go's sync.RWMutex as a value: the goroutine that writes, the one that is  *)
(* next to write, and those that read.  A goroutine that asks for the write  *)
(* lock keeps new readers out while it waits for the present ones to leave.  *)

RWMutexes(G) == [writer : SUBSET G, next : SUBSET G, readers : SUBSET G]

Released == [writer |-> {}, next |-> {}, readers |-> {}]

\* Nobody writes or waits to: a reader may enter, a writer may ask.
Open(m) == m.writer = {} /\ m.next = {}

RLocked(m, g) == [m EXCEPT !.readers = @ \cup {g}]
RUnlocked(m, g) == [m EXCEPT !.readers = @ \ {g}]

AskedBy(m, g) == [m EXCEPT !.next = {g}]
Ready(m, g) == m.next = {g} /\ m.readers = {}
LockedBy(m, g) == [m EXCEPT !.writer = {g}, !.next = {}]
Unlocked(m) == [m EXCEPT !.writer = {}]
=============================================================================
