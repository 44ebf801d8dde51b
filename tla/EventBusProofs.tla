--------------------------- MODULE EventBusProofs ---------------------------
(***************************************************************************)
(* The event bus, for any number of writers, keys and publications.        *)
(*                                                                         *)
(* Writers overwrite each other's files, so nothing relates one copy of    *)
(* the bus to another; BusInv says that every copy, in the file, in the    *)
(* temporary file or in a writer's memory, is good by itself or not a      *)
(* state.  Acknowledged events may be lost that way.  With one writer they *)
(* are not: AloneInv follows the copy from the load to the replacement.    *)
(***************************************************************************)
EXTENDS MissionLayer, TLAPS

\* A list of events numbered 1, 2, 3, ... with each idempotency key once, and
\* no longer than the publications so far.
Good(state, n) ==
    /\ state \in Bus!States
    /\ Len(state) <= n
    /\ \A i \in DOMAIN state :
          /\ state[i].sequence = i
          /\ \A j \in DOMAIN state :
               state[i].key = state[j].key /\ state[i].key # NoKey => i = j

BusInv ==
    /\ Bus!TypeOK
    /\ bus \in {Torn, Empty} \/ Good(bus, calls)
    /\ temp \in {Torn, Empty, None} \/ Good(temp, calls)
    /\ \A w \in Writers : Good(bcopy[w], calls)
    /\ \A w \in Writers : bpc[w] # "idle" => event[w] \in Bus!Events

-----------------------------------------------------------------------------
(* publish on a list of events.                                            *)

LEMMA GoodLater ==
  ASSUME NEW s, NEW m \in Nat, NEW n \in Nat, m <= n, Good(s, m)
  PROVE  Good(s, n)
  <1>1. Len(s) \in Nat
    BY DEF Good, Bus!States
  <1> QED
    BY <1>1 DEF Good

LEMMA NewEventGood ==
  ASSUME Bus!BusAssumption, NEW n \in Nat, n < MaxCalls, NEW s, Good(s, n),
         NEW k \in Keys \cup {NoKey}
  PROVE  Bus!NewEvent(s, k, n + 1) \in Bus!Events
  <1>1. Len(s) \in Nat /\ Len(s) <= n
    BY DEF Good, Bus!States
  <1> QED
    BY <1>1 DEF Bus!NewEvent, Bus!Events, Bus!BusAssumption

\* publish keeps a list good: a key that is stored is not stored again, and
\* the new event gets the next number.
LEMMA PublishedGood ==
  ASSUME Bus!BusAssumption, NEW n \in Nat, n < MaxCalls, NEW s, Good(s, n),
         NEW k \in Keys \cup {NoKey}
  PROVE  /\ Good(Bus!Published(s, k, n + 1), n + 1)
         /\ Bus!Answer(s, k, n + 1) \in Bus!Events
         /\ Bus!Range(s) \cup {Bus!Answer(s, k, n + 1)} \subseteq Bus!Range(Bus!Published(s, k, n + 1))
  <1>1. /\ s \in Seq(Bus!Events) /\ Len(s) \in Nat /\ Len(s) <= n /\ DOMAIN s = 1 .. Len(s)
        /\ \A i \in DOMAIN s : s[i] \in Bus!Events
    BY DEF Good, Bus!States
  <1>2. CASE Bus!Duplicates(s, k) # {}
    <2>1. PICK i \in DOMAIN s : s[i].key = k /\ k # NoKey
      BY <1>2 DEF Bus!Duplicates
    <2>2. Bus!Duplicates(s, k) = {i}
      BY <2>1 DEF Bus!Duplicates, Good
    <2>3. Bus!Answer(s, k, n + 1) = s[i]
      <3>1. \A j \in {i} : i <= j
        BY <1>1, <2>1
      <3> QED
        BY <2>2, <3>1 DEF Bus!Answer
    <2>4. Bus!Published(s, k, n + 1) = s
      BY <1>2 DEF Bus!Published
    <2> QED
      BY <1>1, <2>1, <2>3, <2>4, GoodLater DEF Bus!Range
  <1>3. CASE Bus!Duplicates(s, k) = {}
    <2> DEFINE e == Bus!NewEvent(s, k, n + 1)
               t == Append(s, e)
    <2>1. e \in Bus!Events /\ e.sequence = Len(s) + 1 /\ e.key = k
      BY NewEventGood DEF Bus!NewEvent
    <2> HIDE DEF e
    <2>2. /\ t \in Seq(Bus!Events) /\ Len(t) = Len(s) + 1 /\ DOMAIN t = 1 .. (Len(s) + 1)
          /\ \A i \in 1 .. Len(s) : t[i] = s[i]
          /\ t[Len(s) + 1] = e
      BY <1>1, <2>1
    <2> HIDE DEF t
    <2>3. \A i \in DOMAIN s : s[i].key # k \/ k = NoKey
      BY <1>3 DEF Bus!Duplicates
    <2>4. ASSUME NEW i \in DOMAIN t
          PROVE  /\ t[i].sequence = i
                 /\ \A j \in DOMAIN t : t[i].key = t[j].key /\ t[i].key # NoKey => i = j
      <3>1. i \in DOMAIN s \/ i = Len(s) + 1
        BY <1>1, <2>2
      <3>2. \A j \in DOMAIN t : j \in DOMAIN s \/ j = Len(s) + 1
        BY <1>1, <2>2
      <3> QED
        BY <1>1, <2>1, <2>2, <2>3, <3>1, <3>2 DEF Good
    <2>5. Good(t, n + 1)
      BY <1>1, <2>2, <2>4 DEF Good, Bus!States
    <2>6. Bus!Range(s) \cup {e} \subseteq Bus!Range(t)
      <3>1. \A i \in DOMAIN s : i \in DOMAIN t /\ s[i] = t[i]
        BY <1>1, <2>2
      <3>2. Len(s) + 1 \in DOMAIN t
        BY <1>1, <2>2
      <3> QED
        BY <2>2, <3>1, <3>2 DEF Bus!Range
    <2>7. Bus!Answer(s, k, n + 1) = e /\ Bus!Published(s, k, n + 1) = t
      BY <1>3 DEF Bus!Answer, Bus!Published, e, t
    <2> QED
      BY <2>1, <2>5, <2>6, <2>7
  <1> QED
    BY <1>2, <1>3

-----------------------------------------------------------------------------
(* Any number of writers.                                                  *)

LEMMA LoadKeeps ==
  ASSUME Bus!BusAssumption, BusInv, NEW w \in Writers, NEW k \in Keys \cup {NoKey},
         Bus!LoadPublish(w, k)
  PROVE  BusInv'
  <1> DEFINE state == Bus!Published(bus, k, calls + 1)
             found == Bus!Answer(bus, k, calls + 1)
  <1>1. /\ calls \in Nat /\ calls < MaxCalls /\ Good(bus, calls) /\ MaxCalls \in Nat
    BY DEF BusInv, Bus!TypeOK, Bus!LoadPublish, Bus!BusAssumption
  <1>2. Good(state, calls + 1) /\ found \in Bus!Events
    BY <1>1, PublishedGood
  <1>3. /\ bcopy' = [bcopy EXCEPT ![w] = state] /\ event' = [event EXCEPT ![w] = found]
        /\ bpc' = [bpc EXCEPT ![w] = "save"] /\ calls' = calls + 1
        /\ UNCHANGED <<bus, temp, handle, acked>>
    BY DEF Bus!LoadPublish
  <1> HIDE DEF state, found
  <1>4. calls' \in 0..MaxCalls /\ calls' \in Nat /\ calls <= calls'
    BY <1>1, <1>3
  <1>5. \A v \in Writers : Good(bcopy'[v], calls')
    BY <1>1, <1>2, <1>3, <1>4, GoodLater DEF BusInv, Bus!TypeOK
  <1>6. bcopy' \in [Writers -> Bus!States]
    BY <1>2, <1>3 DEF BusInv, Bus!TypeOK, Good
  <1>7. event' \in [Writers -> Bus!Events \cup {None}] /\ event'[w] \in Bus!Events
    BY <1>2, <1>3 DEF BusInv, Bus!TypeOK
  <1>8. temp \in {Torn, Empty, None} \/ Good(temp, calls')
    BY <1>1, <1>4, GoodLater DEF BusInv
  <1>9. \A v \in Writers : bpc'[v] # "idle" => event'[v] \in Bus!Events
    BY <1>3, <1>7 DEF BusInv, Bus!TypeOK
  <1>10. Bus!TypeOK'
    BY <1>3, <1>4, <1>6, <1>7 DEF BusInv, Bus!TypeOK
  <1> QED
    BY <1>1, <1>3, <1>4, <1>5, <1>8, <1>9, <1>10, GoodLater DEF BusInv

\* What a writer leaves in a file is its copy or no state at all.
LEMMA WriteKeeps ==
  ASSUME Bus!BusAssumption, BusInv, NEW w \in Writers, Bus!WriteTemp(w)
  PROVE  BusInv'
  <1>1. /\ handle' = [handle EXCEPT ![w] = "none"] /\ bpc' = [bpc EXCEPT ![w] = "written"]
        /\ bpc[w] = "opened" /\ UNCHANGED <<bcopy, event, calls, acked>>
    BY DEF Bus!WriteTemp
  <1>2. bus' \in {bus, bcopy[w], Torn} /\ temp' \in {temp, bcopy[w], Torn}
    BY DEF Bus!WriteTemp, Bus!Overwritten
  <1>3. Good(bcopy[w], calls) /\ bcopy[w] \in Bus!States
    BY DEF BusInv, Good
  <1>4. Bus!TypeOK'
    BY <1>1, <1>2, <1>3 DEF BusInv, Bus!TypeOK
  <1> QED
    BY <1>1, <1>2, <1>3, <1>4 DEF BusInv, Bus!TypeOK

LEMMA BusStep == Bus!BusAssumption /\ BusInv /\ [Bus!Next]_Bus!vars => BusInv'
  <1> SUFFICES ASSUME Bus!BusAssumption, BusInv, [Bus!Next]_Bus!vars PROVE BusInv'
    OBVIOUS
  <1> USE DEF BusInv
  <1>1. ASSUME NEW w \in Writers, Bus!LoadFails(w) PROVE BusInv'
    <2>1. calls \in Nat /\ calls' \in 0..MaxCalls /\ calls' \in Nat /\ calls <= calls'
      BY <1>1 DEF Bus!LoadFails, Bus!TypeOK, Bus!BusAssumption
    <2>2. UNCHANGED <<bus, temp, bpc, bcopy, event, handle, acked>>
      BY <1>1 DEF Bus!LoadFails
    <2> QED
      BY <2>1, <2>2, GoodLater DEF Bus!TypeOK
  <1>2. ASSUME NEW w \in Writers, Bus!OpenTemp(w) PROVE BusInv'
    BY <1>2 DEF Bus!OpenTemp, Bus!TypeOK
  <1>3. ASSUME NEW w \in Writers, Bus!Replace(w) PROVE BusInv'
    <2>1. /\ temp # None /\ bus' = temp /\ temp' = None /\ event[w] \in Bus!Events
          /\ bpc' = [bpc EXCEPT ![w] = "idle"] /\ UNCHANGED <<bcopy, event, calls>>
          /\ acked' = acked \cup {event[w]}
      BY <1>3 DEF Bus!Replace
    <2>2. handle' \in [Writers -> {"none", "temp", "bus"}]
      BY <1>3 DEF Bus!Replace, Bus!Moved, Bus!TypeOK
    <2> QED
      BY <2>1, <2>2 DEF Bus!TypeOK
  <1>4. ASSUME NEW w \in Writers, Bus!ReplaceFails(w) \/ Bus!Crash(w) PROVE BusInv'
    BY <1>4 DEF Bus!ReplaceFails, Bus!Crash, Bus!TypeOK
  <1>5. CASE UNCHANGED Bus!vars
    BY <1>5 DEF Bus!vars, Bus!TypeOK
  <1> QED
    BY <1>1, <1>2, <1>3, <1>4, <1>5, LoadKeeps, WriteKeeps DEF Bus!Next

LEMMA BusInit == Bus!BusAssumption /\ Bus!Init => BusInv
  <1> SUFFICES ASSUME Bus!BusAssumption, Bus!Init PROVE BusInv
    OBVIOUS
  <1>1. Good(<<>>, 0)
    BY DEF Good, Bus!States
  <1> QED
    BY <1>1 DEF Bus!Init, BusInv, Bus!TypeOK, Good, Bus!BusAssumption

LEMMA BusGood ==
  ASSUME Bus!BusAssumption
  PROVE  Bus!Spec => []BusInv
  BY BusInit, BusStep, PTL DEF Bus!Spec

\* The bus holds whole events or is recognisably torn, and no sequence number
\* exceeds the number of publications.
THEOREM BusTyped ==
  ASSUME Bus!BusAssumption
  PROVE  Bus!Spec => []Bus!TypeOK
  <1>1. BusInv => Bus!TypeOK
    BY DEF BusInv
  <1> QED
    BY <1>1, BusGood, PTL

\* However many writers overlap, overwrite each other and crash, a bus that can
\* be read numbers its events without a gap and holds each idempotency key
\* once.
THEOREM BusKeyOnce ==
  ASSUME Bus!BusAssumption
  PROVE  Bus!Spec => []KeyOnce
  <1>1. BusInv => KeyOnce
    BY DEF BusInv, Good, KeyOnce, Bus!KeyOnce, Bus!Readable
  <1> QED
    BY <1>1, BusGood, PTL

-----------------------------------------------------------------------------
(* One writer.                                                             *)

\* From the load on, the writer's copy holds all that is in the bus and the
\* event it will report; what it moves over the bus is that copy.
AloneInv(w) ==
    /\ bus \in Bus!States
    /\ acked \subseteq Bus!Range(bus)
    /\ bpc[w] # "idle" => Bus!Range(bus) \cup {event[w]} \subseteq Bus!Range(bcopy[w])
    /\ bpc[w] = "opened" => temp = Empty /\ handle[w] = "temp"
    /\ bpc[w] = "written" => temp = bcopy[w]

LEMMA AloneStep ==
  ASSUME Bus!BusAssumption, NEW w, Writers = {w}, BusInv, AloneInv(w), [Bus!Next]_Bus!vars
  PROVE  AloneInv(w)'
  <1> USE DEF AloneInv
  <1>1. w \in Writers /\ Bus!TypeOK
    BY DEF BusInv
  <1>2. ASSUME NEW k \in Keys \cup {NoKey}, Bus!LoadPublish(w, k)
        PROVE  AloneInv(w)'
    <2> DEFINE state == Bus!Published(bus, k, calls + 1)
               found == Bus!Answer(bus, k, calls + 1)
    <2>1. /\ calls \in Nat /\ calls < MaxCalls /\ Good(bus, calls)
      BY <1>2 DEF BusInv, Bus!TypeOK, Bus!LoadPublish, Bus!BusAssumption
    <2>2. Bus!Range(bus) \cup {found} \subseteq Bus!Range(state)
      BY <2>1, PublishedGood
    <2>3. /\ bcopy' = [bcopy EXCEPT ![w] = state] /\ event' = [event EXCEPT ![w] = found]
          /\ bpc' = [bpc EXCEPT ![w] = "save"] /\ UNCHANGED <<bus, temp, handle, acked>>
      BY <1>2 DEF Bus!LoadPublish
    <2> HIDE DEF state, found
    <2> QED
      BY <1>1, <2>2, <2>3 DEF Bus!TypeOK
  <1>3. CASE Bus!OpenTemp(w)
    BY <1>1, <1>3 DEF Bus!OpenTemp, Bus!TypeOK
  <1>4. CASE Bus!WriteTemp(w)
    <2>1. temp' = bcopy[w] /\ bus' = bus
      BY <1>1, <1>4 DEF Bus!WriteTemp, Bus!Overwritten
    <2> QED
      BY <1>1, <1>4, <2>1 DEF Bus!WriteTemp, Bus!TypeOK
  <1>5. CASE Bus!Replace(w)
    <2>1. /\ bus' = bcopy[w] /\ acked' = acked \cup {event[w]}
          /\ bpc' = [bpc EXCEPT ![w] = "idle"] /\ bpc[w] = "written"
      BY <1>5 DEF Bus!Replace
    <2>2. bcopy[w] \in Bus!States
      BY <1>1 DEF Bus!TypeOK
    <2> QED
      BY <1>1, <2>1, <2>2 DEF Bus!TypeOK
  <1>6. CASE Bus!LoadFails(w) \/ Bus!ReplaceFails(w) \/ Bus!Crash(w)
    BY <1>1, <1>6 DEF Bus!LoadFails, Bus!ReplaceFails, Bus!Crash, Bus!TypeOK
  <1>7. CASE UNCHANGED Bus!vars
    BY <1>7 DEF Bus!vars
  <1> QED
    BY <1>2, <1>3, <1>4, <1>5, <1>6, <1>7 DEF Bus!Next

\* An event that publish has reported to the only writer of a bus is in the
\* bus from then on, and the bus can be read, wherever the writer crashes.
THEOREM BusDurable ==
  ASSUME Bus!BusAssumption, NEW w, Writers = {w}
  PROVE  Bus!Spec => []Durable
  <1>1. Bus!Init => AloneInv(w)
    BY DEF Bus!Init, AloneInv, Bus!States
  <1>2. BusInv /\ AloneInv(w) /\ [Bus!Next]_Bus!vars => AloneInv(w)'
    BY AloneStep
  <1>3. AloneInv(w) => Durable
    BY DEF AloneInv, Durable, Bus!Durable, Bus!Readable, Bus!BusAssumption
  <1> QED
    BY <1>1, <1>2, <1>3, BusGood, PTL DEF Bus!Spec

\* Every stored event keeps its place.
Extends(new, old) == \A i \in DOMAIN old : i \in DOMAIN new /\ new[i] = old[i]

\* In good lists an event's number is its place, so one that is still there has
\* not moved.
LEMMA GoodExtends ==
  ASSUME NEW s, NEW t, NEW m, NEW n, Good(s, m), Good(t, n), Bus!Range(s) \subseteq Bus!Range(t)
  PROVE  Extends(t, s)
  <1> SUFFICES ASSUME NEW i \in DOMAIN s
               PROVE  i \in DOMAIN t /\ t[i] = s[i]
    BY DEF Extends
  <1>1. PICK j \in DOMAIN t : t[j] = s[i]
    BY DEF Bus!Range
  <1>2. t[j].sequence = j /\ s[i].sequence = i
    BY DEF Good
  <1> QED
    BY <1>1, <1>2

\* The only writer of a bus appends: no event is changed, moved or renumbered,
\* wherever the writer crashes, so a reader's after_sequence cursor stays good.
THEOREM BusAppends ==
  ASSUME Bus!BusAssumption, NEW w, Writers = {w}
  PROVE  Bus!Spec => [][Extends(bus', bus)]_Bus!vars
  <1>1. Bus!Init => AloneInv(w)
    BY DEF Bus!Init, AloneInv, Bus!States
  <1>2. BusInv /\ AloneInv(w) /\ [Bus!Next]_Bus!vars => AloneInv(w)'
    BY AloneStep
  <1>3. BusInv /\ BusInv' /\ AloneInv(w) /\ AloneInv(w)' /\ [Bus!Next]_Bus!vars
           => [Extends(bus', bus)]_Bus!vars
    <2> SUFFICES ASSUME BusInv, BusInv', AloneInv(w), AloneInv(w)', Bus!Next
                 PROVE  Extends(bus', bus)
      OBVIOUS
    <2>1. Good(bus, calls) /\ Good(bus', calls')
      BY DEF BusInv, AloneInv, Bus!BusAssumption
    <2>2. bus' = bus \/ (bpc[w] = "written" /\ bus' = bcopy[w])
      BY DEF Bus!Next, Bus!LoadPublish, Bus!LoadFails, Bus!OpenTemp, Bus!WriteTemp,
         Bus!Replace, Bus!ReplaceFails, Bus!Crash, AloneInv
    <2>3. Bus!Range(bus) \subseteq Bus!Range(bus')
      BY <2>2 DEF AloneInv
    <2> QED
      BY <2>1, <2>3, GoodExtends
  <1> QED
    BY <1>1, <1>2, <1>3, BusGood, PTL DEF Bus!Spec
=============================================================================
