------------------------------ MODULE EventBus ------------------------------
(***************************************************************************)
(* The runtime event bus (core/runtime/runtime_event_bus.py) as the worker *)
(* service, the dispatch coordinator and the mission modules use it: load  *)
(* the JSON file, append one event to the loaded copy, write the whole     *)
(* state back through a temporary file.  No lock is held between the load  *)
(* and the replacement, and the temporary file has one fixed name, so the  *)
(* writers share it.  Files behave as on a POSIX system: a writer that has *)
(* the temporary file open while another one moves it over the bus keeps   *)
(* writing into the bus itself.                                            *)
(***************************************************************************)
EXTENDS Naturals, Sequences, Functions

CONSTANTS
    Writers,    \* processes that publish on this bus
    Keys,       \* idempotency keys
    NoKey,      \* a publication without idempotency key
    Torn,       \* a file whose text is not a JSON state
    Empty,      \* a file that has been truncated
    None,       \* no file, no event
    MaxCalls    \* bound: number of publications attempted

Events == [sequence: 1..MaxCalls, key: Keys \cup {NoKey}, call: 1..MaxCalls]

\* A state the file holds: events, event_order and next_sequence, which is
\* always the length of event_order plus one.
States == Seq(Events)

\* A text that is no state can be told from one.
BusAssumption ==
    /\ MaxCalls \in Nat /\ NoKey \notin Keys
    /\ Torn \notin States /\ Empty \notin States /\ None \notin States

VARIABLES
    bus,        \* content of the bus file
    temp,       \* content of the temporary file
    pc,         \* where each writer is in its publication
    copy,       \* the state each writer has in memory
    event,      \* the event each writer's publish returned
    handle,     \* the file each writer's open descriptor refers to
    calls,      \* publications attempted so far
    acked       \* events reported to their callers as published

vars == <<bus, temp, pc, copy, event, handle, calls, acked>>

Init ==
    /\ bus = <<>>
    /\ temp = None
    /\ pc = [w \in Writers |-> "idle"]
    /\ copy = [w \in Writers |-> <<>>]
    /\ event = [w \in Writers |-> None]
    /\ handle = [w \in Writers |-> "none"]
    /\ calls = 0
    /\ acked = {}

(***************************************************************************)
(* publish on a loaded state                                               *)
(***************************************************************************)
\* The positions of the events stored under idempotency key k.
Duplicates(state, k) == {i \in DOMAIN state : k # NoKey /\ state[i].key = k}

NewEvent(state, k, c) == [sequence |-> Len(state) + 1, key |-> k, call |-> c]

\* A known key answers with the stored event, anything else is appended.
Answer(state, k, c) ==
    IF Duplicates(state, k) # {}
    THEN state[CHOOSE i \in Duplicates(state, k) :
                 \A j \in Duplicates(state, k) : i <= j]
    ELSE NewEvent(state, k, c)

\* Mutant: without the search for the key.
PublishedAlways(state, k, c) == Append(state, NewEvent(state, k, c))

Published(state, k, c) ==
    IF Duplicates(state, k) # {}
    THEN state
    ELSE Append(state, NewEvent(state, k, c))

(***************************************************************************)
(* One publication: load, publish, open, write, replace                    *)
(***************************************************************************)
LoadPublish(w, k) ==
    /\ pc[w] = "idle" /\ calls < MaxCalls
    /\ bus # Torn /\ bus # Empty
    /\ calls' = calls + 1
    /\ copy' = [copy EXCEPT ![w] = Published(bus, k, calls + 1)]
    /\ event' = [event EXCEPT ![w] = Answer(bus, k, calls + 1)]
    /\ pc' = [pc EXCEPT ![w] = "save"]
    /\ UNCHANGED <<bus, temp, handle, acked>>

\* The file is not JSON: load_event_bus_state raises and nothing is published.
LoadFails(w) ==
    /\ pc[w] = "idle" /\ calls < MaxCalls
    /\ bus \in {Torn, Empty}
    /\ calls' = calls + 1
    /\ UNCHANGED <<bus, temp, pc, copy, event, handle, acked>>

\* temporary.open("w") creates the file or truncates the one that is there.
OpenTemp(w) ==
    /\ pc[w] = "save"
    /\ temp' = Empty
    /\ handle' = [handle EXCEPT ![w] = "temp"]
    /\ pc' = [pc EXCEPT ![w] = "opened"]
    /\ UNCHANGED <<bus, copy, event, calls, acked>>

\* What a file that holds old may hold after state has been written from its
\* start: the tail of a longer text of another writer stays behind.
Overwritten(old, state) == IF old = Empty THEN {state} ELSE {state, Torn}

WriteTemp(w) ==
    /\ pc[w] = "opened"
    /\ IF handle[w] = "temp"
       THEN temp' \in Overwritten(temp, copy[w])
       ELSE temp' = temp
    /\ IF handle[w] = "bus"
       THEN bus' \in Overwritten(bus, copy[w])
       ELSE bus' = bus
    /\ handle' = [handle EXCEPT ![w] = "none"]
    /\ pc' = [pc EXCEPT ![w] = "written"]
    /\ UNCHANGED <<copy, event, calls, acked>>

\* Where descriptors point once the temporary file has become the bus.
Moved(h) == CASE h = "temp" -> "bus" [] h = "bus" -> "none" [] OTHER -> h

\* Mutant: answering before the file is in place.
ReplaceLater(w) ==
    /\ pc[w] = "written" /\ temp # None
    /\ acked' = acked \cup {event[w]}
    /\ pc' = [pc EXCEPT ![w] = "idle"]
    /\ UNCHANGED <<bus, temp, copy, event, handle, calls>>

\* os.replace moves the temporary file, whoever wrote it, over the bus, and
\* the event is returned to the caller.
Replace(w) ==
    /\ pc[w] = "written" /\ temp # None
    /\ bus' = temp
    /\ temp' = None
    /\ handle' = [v \in Writers |-> Moved(handle[v])]
    /\ acked' = acked \cup {event[w]}
    /\ pc' = [pc EXCEPT ![w] = "idle"]
    /\ UNCHANGED <<copy, event, calls>>

\* Another writer has already moved the file: os.replace raises.
ReplaceFails(w) ==
    /\ pc[w] = "written" /\ temp = None
    /\ pc' = [pc EXCEPT ![w] = "idle"]
    /\ UNCHANGED <<bus, temp, copy, event, handle, calls, acked>>

\* The process ends at any point of a publication; its files stay as they are
\* and a later publication may repeat the call.
Crash(w) ==
    /\ pc[w] # "idle"
    /\ pc' = [pc EXCEPT ![w] = "idle"]
    /\ handle' = [handle EXCEPT ![w] = "none"]
    /\ UNCHANGED <<bus, temp, copy, event, calls, acked>>

Next ==
    \E w \in Writers :
        \/ \E k \in Keys \cup {NoKey} : LoadPublish(w, k)
        \/ LoadFails(w)
        \/ OpenTemp(w)
        \/ WriteTemp(w)
        \/ Replace(w)
        \/ ReplaceFails(w)
        \/ Crash(w)

Spec == Init /\ [][Next]_vars

(***************************************************************************)
(* Properties                                                              *)
(***************************************************************************)
\* The bus holds whole events or is recognisably torn; sequence numbers start
\* at 1 (validate_event).
TypeOK ==
    /\ bus \in {Torn, Empty} \/ bus \in States
    /\ temp \in {Torn, Empty, None} \/ temp \in States
    /\ pc \in [Writers -> {"idle", "save", "opened", "written"}]
    /\ copy \in [Writers -> States]
    /\ event \in [Writers -> Events \cup {None}]
    /\ handle \in [Writers -> {"none", "temp", "bus"}]
    /\ calls \in 0..MaxCalls
    /\ acked \subseteq Events

Readable == bus \notin {Torn, Empty}

\* However writers overlap, crash and repeat their calls, a bus that can be
\* read holds each idempotency key once and numbers its events 1, 2, 3, ...
\* without a gap (publish: duplicate search and next_sequence), the numbers
\* the readers' after_sequence cursors count on.
KeyOnce ==
    Readable =>
        \A i \in DOMAIN bus :
            /\ bus[i].sequence = i
            /\ \A j \in DOMAIN bus :
                 bus[i].key = bus[j].key /\ bus[i].key # NoKey => i = j

\* An event that publish reported to its caller is in the bus from then on
\* (save_event_bus_state comes before the return).
Durable == Readable /\ acked \subseteq Range(bus)
=============================================================================
