------------------------ MODULE OperatorSessionProofs ------------------------
(***************************************************************************)
(* Proofs about the operator session, for any clients, inputs, number of   *)
(* transactions and number of invocations.                                 *)
(*                                                                         *)
(* Commands overtake each other, save stale copies and move each other's   *)
(* temporary files, so nothing about the file alone is inductive.  What is *)
(* kept is a property of every session in play, in the file, the temporary *)
(* file or a copy: the inputs it records answer all actions before the one *)
(* it waits for (Chained), and its outcome is that of the one invocation   *)
(* it records an input of (Traced).  Both stay true because the answer of  *)
(* an invocation is final (Grown).                                         *)
(***************************************************************************)
EXTENDS Sessions, TLAPS

Chained(s) == \A n \in 1 .. s.stage - 1 : n \in Answered(s)

\* a is asked and r is result, now or after a step.
Traced(s, a, r) ==
    /\ s.outcome = "none" => \A i \in s.inputs : TypeOf[i] # Invocation
    /\ s.outcome # "none" =>
          /\ s.status # "waiting"
          /\ \E x \in Calls :
                /\ r[x] = s.outcome /\ a[x] \in s.inputs
                /\ \A i \in s.inputs : TypeOf[i] = Invocation => i = a[x]
    /\ s.status = "completed" => s.outcome \in {"committed", "rolled_back"}

Good(s, a, r) == s \in Session /\ Chained(s) /\ Traced(s, a, r)

AllGood == \A s \in InPlay : Good(s, asked, result)

\* Only an invoking client is in an invocation, made with an input that the
\* session it works on waits for.
Invoking ==
    \A c \in Clients :
        /\ pc[c] = "invoking" =>
              /\ call[c] \in Calls /\ asked[call[c]] \in Inputs
              /\ TypeOf[asked[call[c]]] = Invocation
              /\ copy[c].stage = Invocation /\ copy[c].status = "waiting"
        /\ call[c] # NoCall => pc[c] = "invoking"

\* An invocation that has answered was made with an input, and one that has had
\* an outcome made the directory of its transaction.
Owned ==
    \A x \in Calls :
        /\ result[x] # "none" => asked[x] \in Inputs
        /\ result[x] \in Outcomes => owner[Transaction(x)] = x

SessionInv == TypeOK /\ Invoking /\ Owned /\ AllGood

\* What the invocations were made with and have answered stays.
Grown ==
    \A x \in Calls :
        /\ asked[x] # NoInput => asked'[x] = asked[x]
        /\ result[x] # "none" => result'[x] = result[x]

-----------------------------------------------------------------------------
LEMMA StagesRange == Stages = 1 .. 6
  BY DEF Stages, Actions

LEMMA CreatedGood == ASSUME NEW a, NEW r PROVE Good(Created, a, r)
  BY StagesRange DEF Created, Session, SessionStatuses, Answers, Chained, Good, Traced

LEMMA GoodStays ==
  ASSUME SessionAssumption, TypeOK, Owned, Grown, NEW s, Good(s, asked, result)
  PROVE  Good(s, asked', result')
  <1>1. \A x \in Calls : result[x] # "none" => result'[x] = result[x] /\ asked'[x] = asked[x]
    BY DEF Grown, Owned, SessionAssumption
  <1>2. Traced(s, asked', result')
    BY <1>1 DEF Good, Traced
  <1> QED
    BY <1>2 DEF Good

\* A step that brings only one new session into play, a good one.
LEMMA StillGood ==
  ASSUME SessionAssumption, SessionInv, Grown, NEW u, Good(u, asked', result'),
         file' \in InPlay \cup {u, Torn, Empty},
         temp' \in InPlay \cup {u, Torn, Empty, NoFile},
         \A d \in Clients : copy'[d] \in InPlay \cup {u}
  PROVE  AllGood'
  <1>1. ASSUME NEW s \in InPlay'
        PROVE  s \in InPlay \cup {u}
    BY <1>1 DEF InPlay
  <1>2. ASSUME NEW s \in InPlay'
        PROVE  Good(s, asked', result')
    <2>1. CASE s = u
      BY <2>1
    <2>2. CASE s \in InPlay
      BY <2>2, GoodStays DEF SessionInv, AllGood
    <2> QED
      BY <1>1, <2>1, <2>2
  <1>3. \A s \in InPlay' : Good(s, asked', result')
    BY <1>2
  <1>4. AllGood' <=> \A s \in InPlay' : Good(s, asked', result')
    BY DEF AllGood, Good, Chained, Traced, Answered
  <1> QED
    BY <1>3, <1>4

\* Copies and readable files are in play.
LEMMA PlayedSessions ==
  ASSUME SessionAssumption, TypeOK
  PROVE  /\ \A c \in Clients : copy[c] \in InPlay
         /\ file \in InPlay \cup {Torn, Empty}
         /\ temp \in InPlay \cup {Torn, Empty, NoFile}
  BY DEF SessionAssumption, TypeOK, InPlay

LEMMA InitInv == SessionAssumption /\ Init => SessionInv
  <1> SUFFICES ASSUME SessionAssumption, Init
               PROVE  SessionInv
    OBVIOUS
  <1>1. Created \in Session
    BY CreatedGood DEF Good
  <1>2. TypeOK
    BY <1>1 DEF Init, TypeOK, Answers
  <1>3. InPlay = {Created} \/ InPlay = {}
    BY DEF Init, InPlay
  <1>4. AllGood
    BY <1>3, CreatedGood DEF AllGood
  <1>5. Invoking /\ Owned
    BY DEF Init, Invoking, Owned, Outcomes
  <1> QED
    BY <1>2, <1>4, <1>5 DEF SessionInv

-----------------------------------------------------------------------------
(* One lemma for each kind of step.                                        *)

\* The command stores a good session in its copy.
LEMMA ResultKeeps ==
  ASSUME SessionAssumption, SessionInv, NEW c \in Clients, NEW s,
         Good(s, asked, result), Result(c, s), UNCHANGED <<files, invocations>>,
         call' = [call EXCEPT ![c] = NoCall]
  PROVE  SessionInv'
  <1> USE DEF files, invocations
  <1>1. TypeOK'
    BY DEF SessionInv, TypeOK, Result, Go, Good
  <1>2. Invoking'
    BY DEF SessionInv, Invoking, TypeOK, Result, Go, SessionAssumption
  <1>3. Owned'
    BY DEF SessionInv, Owned, Transaction
  <1>4. AllGood'
    <2>1. Grown /\ asked' = asked /\ result' = result
      BY DEF Grown
    <2>2. \A d \in Clients : copy'[d] \in InPlay \cup {s}
      BY PlayedSessions DEF SessionInv, TypeOK, Result
    <2> QED
      BY <2>1, <2>2, PlayedSessions, StillGood DEF SessionInv
  <1> QED
    BY <1>1, <1>2, <1>3, <1>4 DEF SessionInv

\* A client that is in no invocation has no call to give up.
LEMMA NoCallHeld ==
  ASSUME SessionInv, NEW c \in Clients, pc[c] # "invoking"
  PROVE  call[c] = NoCall /\ call = [call EXCEPT ![c] = NoCall]
  BY DEF SessionInv, Invoking, TypeOK

LEMMA LoadKeeps ==
  ASSUME SessionAssumption, SessionInv, NEW c \in Clients, Load(c)
  PROVE  SessionInv'
  <1> USE DEF files, invocations
  <1>1. file \in InPlay /\ file \in Session
    BY PlayedSessions DEF Load, SessionInv, TypeOK
  <1>2. TypeOK'
    BY <1>1 DEF SessionInv, TypeOK, Load, Go
  <1>3. Invoking'
    BY DEF SessionInv, Invoking, TypeOK, Load, Go
  <1>4. Owned'
    BY DEF SessionInv, Owned, Transaction, Load
  <1>5. AllGood'
    <2>1. Grown /\ Good(Created, asked', result')
      BY CreatedGood DEF Grown, Load
    <2>2. \A d \in Clients : copy'[d] \in InPlay
      BY <1>1, PlayedSessions DEF SessionInv, TypeOK, Load
    <2> QED
      BY <2>1, <2>2, PlayedSessions, StillGood DEF SessionInv, Load
  <1> QED
    BY <1>2, <1>3, <1>4, <1>5 DEF SessionInv

\* The command ends without a word.
LEMMA RefusedKeeps ==
  ASSUME SessionAssumption, SessionInv, NEW c \in Clients, pc[c] # "invoking", Refused(c)
  PROVE  SessionInv'
  <1> USE DEF files, invocations
  <1>1. TypeOK'
    BY CreatedGood DEF SessionInv, TypeOK, Refused, Forget, Go, Good
  <1>2. Invoking'
    BY DEF SessionInv, Invoking, TypeOK, Refused, Forget, Go
  <1>3. Owned'
    BY DEF SessionInv, Owned, Transaction, Refused
  <1>4. AllGood'
    <2>1. Grown /\ Good(Created, asked', result')
      BY CreatedGood DEF Grown, Refused
    <2>2. \A d \in Clients : copy'[d] \in InPlay \cup {Created}
      BY PlayedSessions DEF SessionInv, TypeOK, Refused, Forget
    <2> QED
      BY <2>1, <2>2, PlayedSessions, StillGood DEF SessionInv, Refused
  <1> QED
    BY <1>1, <1>2, <1>3, <1>4 DEF SessionInv

\* A session of before with one more input and another stage or status.
LEMMA AdvancedGood ==
  ASSUME SessionAssumption, NEW s, Good(s, asked, result), s.status = "waiting",
         s.stage # Invocation, NEW i \in Inputs, TypeOf[i] = s.stage,
         NEW u \in Session, u.inputs = s.inputs \cup {i}, u.outcome = s.outcome,
         \/ u.stage = s.stage + 1 /\ u.status = "waiting"
         \/ u.stage = s.stage /\ u.status = "blocked"
  PROVE  Good(u, asked, result)
  <1>1. s.stage \in 1 .. 6
    BY StagesRange DEF Good, Session
  <1>2. ASSUME NEW n \in 1 .. u.stage - 1
        PROVE  n \in Answered(u)
    <2>1. CASE n = s.stage
      BY <2>1 DEF Answered
    <2>2. CASE n # s.stage
      <3>1. n \in 1 .. s.stage - 1
        BY <1>1, <2>2
      <3>2. n \in Answered(s)
        BY <3>1 DEF Good, Chained
      <3> QED
        BY <3>2 DEF Answered
    <2> QED
      BY <2>1, <2>2
  <1>3. s.outcome = "none"
    BY DEF Good, Traced
  <1>4. Traced(u, asked, result)
    BY <1>3 DEF Good, Traced
  <1> QED
    BY <1>2, <1>4 DEF Good, Chained

LEMMA AdvancesKeeps ==
  ASSUME SessionAssumption, SessionInv, NEW c \in Clients, NEW i \in Inputs,
         ResumeAdvances(c, i)
  PROVE  SessionInv'
  <1> DEFINE s == copy[c]
             v == [s EXCEPT !.inputs = @ \cup {i}]
             next == [v EXCEPT !.stage = @ + 1]
             blocked == [v EXCEPT !.status = "blocked"]
  <1>1. Good(s, asked, result)
    BY PlayedSessions DEF SessionInv, AllGood
  <1>2. /\ s.stage \in 1 .. 6 /\ s.stage # 6 /\ s.stage + 1 \in 1 .. 6
        /\ s.status = "waiting" /\ TypeOf[i] = s.stage /\ s.stage # Invocation
    BY <1>1, StagesRange DEF Good, Session, ResumeAdvances, Awaited, Settled, Invocation
  <1>3. /\ v \in Session /\ v.stage = s.stage /\ v.inputs = s.inputs \cup {i}
        /\ v.outcome = s.outcome /\ v.status = "waiting"
    BY <1>1, <1>2 DEF Good, Session
  <1> HIDE DEF v
  <1>4. /\ next \in Session /\ next.stage = s.stage + 1 /\ next.status = "waiting"
        /\ next.inputs = s.inputs \cup {i} /\ next.outcome = s.outcome
    BY <1>2, <1>3, StagesRange DEF Session
  <1>5. /\ blocked \in Session /\ blocked.stage = s.stage /\ blocked.status = "blocked"
        /\ blocked.inputs = s.inputs \cup {i} /\ blocked.outcome = s.outcome
    BY <1>3 DEF Session, SessionStatuses
  <1>6. Result(c, next) \/ Result(c, blocked)
    BY DEF ResumeAdvances, v
  <1>7. /\ UNCHANGED <<files, invocations>>
        /\ call' = [call EXCEPT ![c] = NoCall]
    BY NoCallHeld DEF ResumeAdvances
  <1> HIDE DEF s, next, blocked
  <1>8. Good(next, asked, result) /\ Good(blocked, asked, result)
    BY <1>1, <1>2, <1>4, <1>5, AdvancedGood
  <1> QED
    BY <1>6, <1>7, <1>8, ResultKeeps

LEMMA InvokesKeeps ==
  ASSUME SessionAssumption, SessionInv, NEW c \in Clients, NEW i \in Inputs,
         NEW x \in Calls, ResumeInvokes(c, i, x)
  PROVE  SessionInv'
  <1> USE DEF files
  <1>1. TypeOK'
    BY DEF SessionInv, TypeOK, ResumeInvokes, Go
  <1>2. asked' = [asked EXCEPT ![x] = i] /\ asked[x] = NoInput /\ NoInput \notin Inputs
    BY DEF ResumeInvokes, SessionAssumption
  <1>3. /\ TypeOf[i] = Invocation /\ copy[c].stage = Invocation /\ copy[c].status = "waiting"
        /\ copy' = copy /\ owner' = owner /\ result' = result
        /\ call' = [call EXCEPT ![c] = x] /\ pc' = [pc EXCEPT ![c] = "invoking"]
    BY DEF ResumeInvokes, Awaited, Settled, Go
  <1>4. Invoking'
    <2>1. ASSUME NEW d \in Clients, d # c
          PROVE  /\ pc'[d] = pc[d] /\ call'[d] = call[d]
                 /\ pc[d] = "invoking" => asked'[call[d]] = asked[call[d]]
      BY <1>2, <1>3, <2>1 DEF SessionInv, Invoking, TypeOK
    <2>2. pc'[c] = "invoking" /\ call'[c] = x /\ asked'[x] = i
      BY <1>2, <1>3 DEF SessionInv, TypeOK
    <2> QED
      BY <1>3, <2>1, <2>2 DEF SessionInv, Invoking
  <1>5. \A y \in Calls : result[y] # "none" => asked'[y] = asked[y]
    BY <1>2 DEF SessionInv, Owned, TypeOK
  <1>6. Owned'
    BY <1>3, <1>5 DEF SessionInv, Owned, Transaction, Outcomes
  <1>7. Grown
    BY <1>2, <1>3 DEF Grown, SessionInv, TypeOK
  <1>8. AllGood'
    BY <1>3, <1>7, CreatedGood, PlayedSessions, StillGood DEF SessionInv, ResumeInvokes
  <1> QED
    BY <1>1, <1>4, <1>6, <1>8 DEF SessionInv

LEMMA ResumeKeeps ==
  ASSUME SessionAssumption, SessionInv, NEW c \in Clients, Resume(c)
  PROVE  SessionInv'
  <1>1. CASE ResumeSettled(c)
    <2>1. Good(copy[c], asked, result)
      BY PlayedSessions DEF SessionInv, AllGood
    <2>2. /\ Result(c, copy[c]) /\ UNCHANGED <<files, invocations>>
          /\ call' = [call EXCEPT ![c] = NoCall]
      BY <1>1, NoCallHeld DEF ResumeSettled
    <2> QED
      BY <2>1, <2>2, ResultKeeps
  <1>2. CASE ResumeRaises(c)
    BY <1>2, RefusedKeeps DEF ResumeRaises
  <1> QED
    BY <1>1, <1>2, AdvancesKeeps, InvokesKeeps DEF Resume

LEMMA CancelKeeps ==
  ASSUME SessionAssumption, SessionInv, NEW c \in Clients, Cancel(c)
  PROVE  SessionInv'
  <1> DEFINE s == copy[c]
             cancelled == [s EXCEPT !.status = "cancelled"]
  <1>1. Good(s, asked, result)
    BY PlayedSessions DEF SessionInv, AllGood
  <1>2. CASE Forget(c, "idle")
    BY <1>2, RefusedKeeps DEF Cancel, Refused
  <1>3. CASE Result(c, IF s.status = "waiting" THEN cancelled ELSE s)
    <2>1. /\ cancelled \in Session /\ cancelled.stage = s.stage
          /\ cancelled.inputs = s.inputs /\ cancelled.outcome = s.outcome
          /\ cancelled.status = "cancelled"
      BY <1>1 DEF Good, Session, SessionStatuses
    <2> HIDE DEF cancelled
    <2>2. Good(cancelled, asked, result)
      BY <1>1, <2>1 DEF Good, Chained, Answered, Traced
    <2>3. UNCHANGED <<files, invocations>> /\ call' = [call EXCEPT ![c] = NoCall]
      BY NoCallHeld DEF Cancel
    <2> HIDE DEF s
    <2> QED
      BY <1>1, <1>3, <2>2, <2>3, ResultKeeps
  <1> QED
    BY <1>2, <1>3 DEF Cancel

\* A transaction directory is made, given up, or its owner answers.
LEMMA TransactKeeps ==
  ASSUME SessionAssumption, SessionInv, NEW c \in Clients, Transact(c)
  PROVE  SessionInv'
  <1> DEFINE x == call[c]
             t == Transaction(x)
  <1>1. /\ x \in Calls /\ asked[x] \in Inputs /\ t \in Transactions /\ result[x] = "none"
        /\ owner \in [Transactions -> Calls \cup {Nobody, Gone}]
        /\ result \in [Calls -> Answers]
        /\ \A y \in Calls : result[y] # "none" => Transaction(y) \in Transactions
    BY DEF SessionInv, Invoking, TypeOK, Owned, Transact, Claim, Block, Finish, Invokes,
           Transaction, SessionAssumption
  <1>2. UNCHANGED <<files, copy, pc, call, asked>>
    BY DEF Transact, Claim, Block, Finish
  <1>3. /\ owner' \in [Transactions -> Calls \cup {Nobody, Gone}]
        /\ result' \in [Calls -> Answers]
        /\ \A y \in Calls : y # x => result'[y] = result[y]
    BY <1>1 DEF Transact, Claim, Block, Finish, Left, Answers
  <1>4. \A y \in Calls : result'[y] \in Outcomes => owner'[Transaction(y)] = y
    <2> SUFFICES ASSUME NEW y \in Calls, result'[y] \in Outcomes
                 PROVE  owner'[Transaction(y)] = y
      OBVIOUS
    <2>1. CASE Claim(c)
      <3>1. result[y] \in Outcomes /\ owner[t] = Nobody /\ owner' = [owner EXCEPT ![t] = x]
        BY <2>1 DEF Claim
      <3>2. owner[Transaction(y)] = y /\ Transaction(y) \in Transactions
        BY <1>1, <3>1 DEF SessionInv, Owned, Outcomes
      <3> QED
        BY <1>1, <3>1, <3>2 DEF SessionAssumption
    <2>2. CASE Block(c)
      <3>1. y # x /\ result[y] \in Outcomes
        BY <1>1, <2>2 DEF Block, Outcomes
      <3>2. owner[Transaction(y)] = y /\ Transaction(y) \in Transactions
        BY <1>1, <3>1 DEF SessionInv, Owned, Outcomes
      <3> QED
        BY <1>1, <2>2, <3>1, <3>2 DEF Block, Left
    <2>3. CASE Finish(c)
      <3>1. owner' = owner /\ owner[t] = x
        BY <2>3 DEF Finish
      <3>2. CASE y = x
        BY <3>1, <3>2
      <3>3. CASE y # x
        BY <1>3, <3>1, <3>3 DEF SessionInv, Owned
      <3> QED
        BY <3>2, <3>3
    <2> QED
      BY <2>1, <2>2, <2>3 DEF Transact
  <1>5. TypeOK' /\ Invoking'
    BY <1>2, <1>3 DEF files, SessionInv, TypeOK, Invoking
  <1>6. Owned'
    BY <1>1, <1>2, <1>3, <1>4 DEF SessionInv, Owned, Transaction
  <1>7. AllGood'
    <2>1. Grown
      BY <1>1, <1>2, <1>3 DEF Grown
    <2> QED
      BY <1>2, <2>1, CreatedGood, PlayedSessions, StillGood DEF SessionInv, files
  <1> QED
    BY <1>5, <1>6, <1>7 DEF SessionInv

LEMMA RecordKeeps ==
  ASSUME SessionAssumption, SessionInv, NEW c \in Clients, RecordOutcome(c)
  PROVE  SessionInv'
  <1> DEFINE x == call[c]
             s == copy[c]
             u == [s EXCEPT !.inputs = @ \cup {asked[x]}, !.outcome = result[x],
                            !.status = StatusAfter(result[x])]
  <1>1. /\ Good(s, asked, result) /\ x \in Calls /\ asked[x] \in Inputs
        /\ s.stage = Invocation /\ s.status = "waiting"
        /\ result[x] \in Answers /\ result[x] # "none"
    BY PlayedSessions DEF SessionInv, AllGood, Invoking, TypeOK, RecordOutcome
  <1>2. StatusAfter(result[x]) \in SessionStatuses \ {"waiting"}
    BY DEF StatusAfter, SessionStatuses
  <1>3. StatusAfter(result[x]) = "completed" => result[x] \in {"committed", "rolled_back"}
    BY <1>1 DEF StatusAfter, Answers, Outcomes
  <1>4. /\ u \in Session /\ u.stage = s.stage /\ u.inputs = s.inputs \cup {asked[x]}
        /\ u.outcome = result[x] /\ u.status = StatusAfter(result[x])
    BY <1>1, <1>2 DEF Good, Session
  <1>5. Result(c, u) /\ UNCHANGED <<files, invocations>> /\ call' = [call EXCEPT ![c] = NoCall]
    BY DEF RecordOutcome
  <1> HIDE DEF u
  <1>6. Chained(u)
    BY <1>1, <1>4 DEF Good, Chained, Answered
  <1>7. Traced(u, asked, result)
    <2>1. s.outcome = "none" /\ \A i \in s.inputs : TypeOf[i] # Invocation
      BY <1>1 DEF Good, Traced
    <2>2. \A i \in u.inputs : TypeOf[i] = Invocation => i = asked[x]
      BY <1>4, <2>1
    <2> QED
      BY <1>1, <1>2, <1>3, <1>4, <2>2 DEF Traced
  <1>8. Good(u, asked, result)
    BY <1>4, <1>6, <1>7 DEF Good
  <1> QED
    BY <1>5, <1>8, ResultKeeps

\* Saving moves sessions about and leaves the invocations alone.
LEMMA SaveKeeps ==
  ASSUME SessionAssumption, SessionInv, NEW c \in Clients, Save(c)
  PROVE  SessionInv'
  <1>1. CASE ReplaceFails(c)
    BY <1>1, RefusedKeeps DEF ReplaceFails
  <1>2. CASE OpenTemp(c) \/ WriteTemp(c) \/ Replace(c)
    <2> USE <1>2 DEF OpenTemp, WriteTemp, Replace, invocations
    <2>1. /\ UNCHANGED <<call, asked, owner, result>>
          /\ pc' \in [Clients -> {"idle", "loaded", "invoking", "save", "opened", "written"}]
          /\ pc[c] # "invoking" /\ pc'[c] # "invoking"
          /\ \A d \in Clients : d # c => pc'[d] = pc[d]
      BY DEF SessionInv, TypeOK, Go, Forget
    <2>2. /\ \A d \in Clients : d # c => copy'[d] = copy[d]
          /\ copy' \in [Clients -> Session] /\ copy'[c] \in {copy[c], Created}
      BY CreatedGood DEF SessionInv, TypeOK, Forget, Good
    <2>3. /\ temp' \in {temp, copy[c], Empty, Torn, NoFile}
          /\ file' \in {file, copy[c], Torn} \/ (file' = temp /\ temp # NoFile)
      BY DEF Overwritten
    <2>4. handle' \in [Clients -> {"none", "temp", "file"}]
      BY DEF SessionInv, TypeOK, Moved
    <2>5. TypeOK'
      BY <2>1, <2>2, <2>3, <2>4 DEF SessionInv, TypeOK
    <2>6. Invoking'
      BY <2>1, <2>2 DEF SessionInv, Invoking
    <2>7. Owned'
      BY <2>1 DEF SessionInv, Owned, Transaction
    <2>8. AllGood'
      <3>1. Grown /\ Good(Created, asked', result')
        BY <2>1, CreatedGood DEF Grown
      <3>2. /\ file' \in InPlay \cup {Created, Torn, Empty}
            /\ temp' \in InPlay \cup {Created, Torn, Empty, NoFile}
            /\ \A d \in Clients : copy'[d] \in InPlay \cup {Created}
        BY <2>2, <2>3, PlayedSessions DEF SessionInv
      <3> QED
        BY <3>1, <3>2, StillGood
    <2> QED
      BY <2>5, <2>6, <2>7, <2>8 DEF SessionInv
  <1> QED
    BY <1>1, <1>2 DEF Save

LEMMA CrashKeeps ==
  ASSUME SessionAssumption, SessionInv, NEW c \in Clients, Crash(c)
  PROVE  SessionInv'
  <1> DEFINE x == call[c]
  <1>1. pc[c] = "invoking" => x \in Calls /\ Transaction(x) \in Transactions
    BY DEF SessionInv, Invoking, Transaction, SessionAssumption
  <1>2. /\ owner' \in [Transactions -> Calls \cup {Nobody, Gone}]
        /\ \A t \in Transactions :
              owner'[t] = owner[t] \/ (owner[t] = x /\ result[x] = "none")
    BY <1>1 DEF SessionInv, TypeOK, Crash, Left
  <1>3. UNCHANGED <<file, temp, asked, result>>
    BY DEF Crash
  <1>4. TypeOK'
    BY <1>2, <1>3, CreatedGood DEF SessionInv, TypeOK, Crash, Forget, Go, Good
  <1>5. Invoking'
    BY <1>3 DEF SessionInv, Invoking, TypeOK, Crash, Forget, Go, SessionAssumption
  <1>6. Owned'
    <2>1. ASSUME NEW y \in Calls, result[y] \in Outcomes
          PROVE  owner'[Transaction(y)] = y
      <3>1. /\ owner[Transaction(y)] = y /\ Transaction(y) \in Transactions
            /\ result[y] # "none"
        BY <2>1 DEF SessionInv, Owned, Outcomes, Transaction, SessionAssumption
      <3> QED
        BY <1>2, <3>1
    <2> QED
      BY <1>3, <2>1 DEF SessionInv, Owned, Transaction
  <1>7. AllGood'
    <2>1. Grown /\ Good(Created, asked', result')
      BY <1>3, CreatedGood DEF Grown
    <2>2. \A d \in Clients : copy'[d] \in InPlay \cup {Created}
      BY PlayedSessions DEF SessionInv, TypeOK, Crash, Forget
    <2> QED
      BY <1>3, <2>1, <2>2, PlayedSessions, StillGood DEF SessionInv
  <1> QED
    BY <1>4, <1>5, <1>6, <1>7 DEF SessionInv

LEMMA NextInv ==
  ASSUME SessionAssumption, SessionInv, [Next]_vars
  PROVE  SessionInv'
  <1>1. ASSUME UNCHANGED vars
        PROVE  SessionInv'
    BY <1>1 DEF vars, files, invocations, SessionInv, TypeOK, Invoking, Owned, Transaction,
                AllGood, InPlay, Good, Chained, Answered, Traced
  <1>2. ASSUME NEW c \in Clients, LoadFails(c)
        PROVE  UNCHANGED vars
    BY <1>2 DEF LoadFails
  <1> QED
    BY <1>1, <1>2, LoadKeeps, ResumeKeeps, TransactKeeps, RecordKeeps, CancelKeeps,
       SaveKeeps, CrashKeeps DEF Next

THEOREM SessionInvariant ==
  ASSUME SessionAssumption PROVE Spec => []SessionInv
  <1>1. Init => SessionInv
    BY InitInv
  <1>2. SessionInv /\ [Next]_vars => SessionInv'
    BY NextInv
  <1> QED
    BY <1>1, <1>2, PTL DEF Spec

-----------------------------------------------------------------------------
\* Readable files and loaded copies are always sessions of the chain.
THEOREM SessionTyped ==
  ASSUME SessionAssumption PROVE Spec => []TypeOK
  <1>1. SessionInv => TypeOK
    BY DEF SessionInv
  <1> QED
    BY <1>1, SessionInvariant, PTL

\* However commands overtake and overwrite each other, a transaction is only
\* invoked for a session that records an operator input for each of the five
\* actions before it (resume_runtime_session).
THEOREM SessionApproved ==
  ASSUME SessionAssumption PROVE Spec => []ApprovalChain
  <1>1. ASSUME SessionInv
        PROVE  ApprovalChain
    <2>1. \A c \in Clients : Chained(copy[c])
      BY <1>1, PlayedSessions DEF SessionInv, AllGood, Good
    <2> QED
      BY <1>1, <2>1 DEF SessionInv, Invoking, Chained, ApprovalChain
  <1> QED
    BY <1>1, SessionInvariant, PTL

\* A readable file reports only what an invocation made with one of its own
\* inputs has answered, and says completed only when that one committed or
\* rolled back, stale and overlapping saves included.
THEOREM SessionOutcome ==
  ASSUME SessionAssumption PROVE Spec => []OutcomeReal
  <1>1. ASSUME SessionInv
        PROVE  OutcomeReal
    <2>1. file \notin {Torn, Empty} => Good(file, asked, result)
      BY <1>1, PlayedSessions DEF SessionInv, AllGood
    <2> QED
      BY <2>1 DEF OutcomeReal, Real, Good, Traced
  <1> QED
    BY <1>1, SessionInvariant, PTL

\* Final inputs of one transaction may be given to several clients, by one or
\* several input_ids, and each client may save its view: no two sessions in play
\* report different effects of it.  Of another transaction, one with another
\* invocation_request_id, they may.
THEOREM SessionReportsAgree ==
  ASSUME SessionAssumption PROVE Spec => []ReportsAgree
  <1>1. ASSUME SessionInv
        PROVE  ReportsAgree
    <2> SUFFICES ASSUME NEW s \in InPlay, NEW u \in InPlay, s.outcome \in Outcomes,
                        u.outcome \in Outcomes, Invoked(s) \cap Invoked(u) # {}
                 PROVE  s.outcome = u.outcome
      BY DEF ReportsAgree
    <2>1. Traced(s, asked, result) /\ Traced(u, asked, result)
      BY <1>1 DEF SessionInv, AllGood, Good
    <2>2. PICK x \in Calls : /\ result[x] = s.outcome
                             /\ \A i \in s.inputs : TypeOf[i] = Invocation => i = asked[x]
      BY <2>1 DEF Traced, Outcomes
    <2>3. PICK y \in Calls : /\ result[y] = u.outcome
                             /\ \A i \in u.inputs : TypeOf[i] = Invocation => i = asked[y]
      BY <2>1 DEF Traced, Outcomes
    <2>4. PICK t : t \in Invoked(s) /\ t \in Invoked(u)
      OBVIOUS
    <2>5. t = Transaction(x) /\ t = Transaction(y)
      BY <2>2, <2>3, <2>4 DEF Invoked, Transaction
    <2>6. owner[Transaction(x)] = x /\ owner[Transaction(y)] = y
      BY <1>1, <2>2, <2>3 DEF SessionInv, Owned
    <2> QED
      BY <2>2, <2>3, <2>5, <2>6
  <1> QED
    BY <1>1, SessionInvariant, PTL
=============================================================================
