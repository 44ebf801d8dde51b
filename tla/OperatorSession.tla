--------------------------- MODULE OperatorSession ---------------------------
(***************************************************************************)
(* An operator session: core/runtime/runtime_operator_session.py and       *)
(* runtime_end_to_end_orchestrator.py.                                     *)
(*                                                                         *)
(* A session is a file that waits for six operator inputs, one after the   *)
(* other; the last one runs a transaction.  Every command of the session   *)
(* and scheduler CLIs loads the file, works on its copy and saves it, with *)
(* no lock and no check that the file is still what was loaded.  A save    *)
(* writes a temporary file, whose name all savers share, and moves it over *)
(* the session.  A client is somebody who runs such commands, one at a     *)
(* time.                                                                   *)
(*                                                                         *)
(* The transaction_id is a fingerprint of the invocation's ids, so final   *)
(* inputs with different invocation_request_ids run transactions that know *)
(* nothing of each other; the directory of a transaction is what only one  *)
(* invocation gets (TransactionClaim).                                     *)
(*                                                                         *)
(* A session whose expires_at has passed can no longer be loaded: that is  *)
(* a behaviour in which no further Load happens.                           *)
(***************************************************************************)
EXTENDS Naturals, FiniteSets

CONSTANTS
    Clients,
    Inputs,         \* operator inputs, by input_id
    TypeOf,         \* Inputs -> 1 .. 6: the action an input answers
    Transactions,
    TransactionOf,  \* the transaction_id an input's payload gives, if admitted
    Calls,          \* bound: the invocations of transactions
    Nobody, Gone,   \* no directory yet; its maker stopped without an outcome
    NoInput, NoCall,
    Torn, Empty,    \* contents that are no session
    NoFile

\* required_action, in order.  The third and fourth have the same status,
\* waiting_for_active_authorization.
Actions == <<"operator_approval", "execution_plan_review",
             "controlled_execution_request", "active_execution_authorization",
             "candidate_bundle", "transactional_invocation">>

Stages == DOMAIN Actions
Invocation == 6

\* transaction_status: what a transaction has done, or that it was refused.
Outcomes == {"committed", "rolled_back", "rollback_failed"}
Answers == Outcomes \cup {"none", "blocked"}

\* "waiting" with the stage is one of the waiting_for_... statuses.
SessionStatuses == {"waiting", "completed", "blocked", "failed", "cancelled"}

Session == [status : SessionStatuses,
            stage : Stages,
            inputs : SUBSET Inputs,     \* processed_input_ids
            outcome : Answers]          \* artifacts.transaction_result

SessionAssumption ==
    /\ TypeOf \in [Inputs -> Stages]
    /\ TransactionOf \in [Inputs -> Transactions]
    /\ NoCall \notin Calls /\ Nobody \notin Calls /\ Gone \notin Calls
    /\ NoInput \notin Inputs
    /\ Nobody # Gone
    /\ Torn \notin Session /\ Empty \notin Session /\ NoFile \notin Session

VARIABLES
    file,       \* content of the session file
    temp,       \* content of the temporary file
    handle,     \* the file each client's open descriptor refers to
    copy,       \* the session each client works on
    pc,         \* where its command is
    call,       \* the invocation it is in
    asked,      \* the operator input each invocation was made with
    owner,      \* the invocation that made each transaction's directory
    result      \* the transaction_status each invocation answers, or "none"

files == <<file, temp, handle>>
invocations == <<asked, owner, result>>
vars == <<files, copy, pc, call, invocations>>

\* The session only awaits inputs of the chain, and every loaded copy is a
\* session the file could hold.
TypeOK ==
    /\ file \in Session \cup {Torn, Empty}
    /\ temp \in Session \cup {Torn, Empty, NoFile}
    /\ handle \in [Clients -> {"none", "temp", "file"}]
    /\ copy \in [Clients -> Session]
    /\ pc \in [Clients -> {"idle", "loaded", "invoking", "save", "opened", "written"}]
    /\ call \in [Clients -> Calls \cup {NoCall}]
    /\ asked \in [Calls -> Inputs \cup {NoInput}]
    /\ owner \in [Transactions -> Calls \cup {Nobody, Gone}]
    /\ result \in [Calls -> Answers]

\* create_runtime_session: proposal built, paused for its approval, saved.
Created == [status |-> "waiting", stage |-> 1, inputs |-> {}, outcome |-> "none"]

Init ==
    /\ file = Created /\ temp = NoFile
    /\ handle = [c \in Clients |-> "none"]
    /\ copy = [c \in Clients |-> Created]
    /\ pc = [c \in Clients |-> "idle"]
    /\ call = [c \in Clients |-> NoCall]
    /\ asked = [x \in Calls |-> NoInput]
    /\ owner = [t \in Transactions |-> Nobody]
    /\ result = [x \in Calls |-> "none"]

-----------------------------------------------------------------------------
Go(c, place) == pc' = [pc EXCEPT ![c] = place]

\* The command goes on without its copy, which it no longer needs.
Forget(c, place) ==
    /\ copy' = [copy EXCEPT ![c] = Created]
    /\ Go(c, place)

\* The command goes on to save s.
Result(c, s) ==
    /\ copy' = [copy EXCEPT ![c] = s]
    /\ Go(c, "save")

Load(c) ==
    /\ pc[c] = "idle" /\ file \notin {Torn, Empty}
    /\ copy' = [copy EXCEPT ![c] = file]
    /\ Go(c, "loaded")
    /\ UNCHANGED <<files, call, invocations>>

\* "invalid_session_json"
LoadFails(c) ==
    /\ pc[c] = "idle" /\ file \in {Torn, Empty}
    /\ UNCHANGED vars

\* The command ends with an error and saves nothing.
Refused(c) ==
    /\ Forget(c, "idle")
    /\ UNCHANGED <<files, call, invocations>>

\* resume_runtime_session returns the session as it is: it is terminal, or
\* the input has been processed.
Settled(s, i) == s.status # "waiting" \/ i \in s.inputs

ResumeSettled(c) ==
    /\ pc[c] = "loaded"
    /\ {i \in Inputs : Settled(copy[c], i)} # {}
    /\ Result(c, copy[c])
    /\ UNCHANGED <<files, call, invocations>>

\* The input answers the action the session waits for.
Awaited(s, i) == ~Settled(s, i) /\ TypeOf[i] = s.stage

\* Mutant: the next action is derived from the input, whose type is not compared
\* with the action the session waits for.
ResumeAdvancesFrom(c, i) ==
    /\ pc[c] = "loaded"
    /\ ~Settled(copy[c], i)
    /\ TypeOf[i] # Invocation
    /\ Result(c, [copy[c] EXCEPT !.inputs = @ \cup {i}, !.stage = TypeOf[i] + 1])
    /\ UNCHANGED <<files, call, invocations>>

\* An action before the last: its gate approves and the session pauses for
\* the next one, or refuses and blocks it.
ResumeAdvances(c, i) ==
    /\ pc[c] = "loaded"
    /\ Awaited(copy[c], i)
    /\ copy[c].stage # Invocation
    /\ LET s == [copy[c] EXCEPT !.inputs = @ \cup {i}]
       IN  \/ Result(c, [s EXCEPT !.stage = @ + 1])
           \/ Result(c, [s EXCEPT !.status = "blocked"])
    /\ UNCHANGED <<files, call, invocations>>

\* "wrong_phase_input", or the gate of an action before the last raises.
ResumeRaises(c) ==
    /\ pc[c] = "loaded"
    /\ {i \in Inputs : /\ ~Settled(copy[c], i)
                       /\ TypeOf[i] # copy[c].stage \/ copy[c].stage # Invocation} # {}
    /\ Refused(c)

\* The last action: the copy is transaction_running, the file is not.
ResumeInvokes(c, i, x) ==
    /\ pc[c] = "loaded"
    /\ Awaited(copy[c], i)
    /\ copy[c].stage = Invocation
    /\ asked[x] = NoInput
    /\ asked' = [asked EXCEPT ![x] = i]
    /\ call' = [call EXCEPT ![c] = x]
    /\ Go(c, "invoking")
    /\ UNCHANGED <<files, copy, owner, result>>

-----------------------------------------------------------------------------
(* execute_transactional_active_plan, as its callers see it: the steps of  *)
(* TransactionClaim, which ActiveTransaction implements, for the           *)
(* transaction of the invocation.                                          *)

Transaction(x) == TransactionOf[asked[x]]

Invokes(c) == pc[c] = "invoking" /\ result[call[c]] = "none"

Claim(c) ==
    /\ Invokes(c)
    /\ owner[Transaction(call[c])] = Nobody
    /\ owner' = [owner EXCEPT ![Transaction(call[c])] = call[c]]
    /\ UNCHANGED <<files, copy, pc, call, asked, result>>

\* An owner that stops without an outcome leaves its directory behind.
Left(x) ==
    [owner EXCEPT ![Transaction(x)] = IF @ = x /\ result[x] = "none" THEN Gone ELSE @]

\* The gate, the state of the files or the directory refuses the invocation, or
\* its snapshot is incomplete.
Block(c) ==
    /\ Invokes(c)
    /\ result' = [result EXCEPT ![call[c]] = "blocked"]
    /\ owner' = Left(call[c])
    /\ UNCHANGED <<files, copy, pc, call, asked>>

Finish(c) ==
    /\ Invokes(c)
    /\ owner[Transaction(call[c])] = call[c]
    /\ \E status \in Outcomes : result' = [result EXCEPT ![call[c]] = status]
    /\ UNCHANGED <<files, copy, pc, call, asked, owner>>

\* Mutant: a refused invocation ends the session like one that rolled back.
StatusAfterAny(answer) == IF answer = "rollback_failed" THEN "failed" ELSE "completed"

StatusAfter(answer) ==
    CASE answer = "rollback_failed" -> "failed"
      [] answer = "blocked" -> "blocked"
      [] OTHER -> "completed"

\* The transaction has answered.
RecordOutcome(c) ==
    /\ pc[c] = "invoking"
    /\ result[call[c]] # "none"
    /\ Result(c, [copy[c] EXCEPT !.inputs = @ \cup {asked[call[c]]},
                                 !.outcome = result[call[c]],
                                 !.status = StatusAfter(result[call[c]])])
    /\ call' = [call EXCEPT ![c] = NoCall]
    /\ UNCHANGED <<files, invocations>>

\* cancel_runtime_session; a blocked session has no transition to cancelled.
Cancel(c) ==
    /\ pc[c] = "loaded"
    /\ \/ copy[c].status = "blocked" /\ Forget(c, "idle")
       \/ copy[c].status # "blocked"
          /\ Result(c, IF copy[c].status = "waiting"
                       THEN [copy[c] EXCEPT !.status = "cancelled"] ELSE copy[c])
    /\ UNCHANGED <<files, call, invocations>>

-----------------------------------------------------------------------------
(* save_runtime_session                                                    *)

\* temporary.open("w") creates the file or truncates the one that is there.
OpenTemp(c) ==
    /\ pc[c] = "save"
    /\ temp' = Empty
    /\ handle' = [handle EXCEPT ![c] = "temp"]
    /\ Go(c, "opened")
    /\ UNCHANGED <<file, copy, call, invocations>>

\* What a file that holds old may hold after s has been written from its start:
\* the tail of a longer text of another saver stays behind.
Overwritten(old, s) == IF old = Empty THEN {s} ELSE {s, Torn}

WriteTemp(c) ==
    /\ pc[c] = "opened"
    /\ temp' \in IF handle[c] = "temp" THEN Overwritten(temp, copy[c]) ELSE {temp}
    /\ file' \in IF handle[c] = "file" THEN Overwritten(file, copy[c]) ELSE {file}
    /\ handle' = [handle EXCEPT ![c] = "none"]
    /\ Forget(c, "written")
    /\ UNCHANGED <<call, invocations>>

\* Where descriptors point once the temporary file has become the session.
Moved(h) == CASE h = "temp" -> "file" [] h = "file" -> "none" [] OTHER -> h

\* os.replace moves the temporary file, whoever wrote it.
Replace(c) ==
    /\ pc[c] = "written" /\ temp # NoFile
    /\ file' = temp
    /\ temp' = NoFile
    /\ handle' = [d \in Clients |-> Moved(handle[d])]
    /\ Go(c, "idle")
    /\ UNCHANGED <<copy, call, invocations>>

\* Another saver has moved it.
ReplaceFails(c) ==
    /\ pc[c] = "written" /\ temp = NoFile
    /\ Refused(c)

\* The command's process ends, and the transaction with it.
Crash(c) ==
    /\ pc[c] # "idle"
    /\ Forget(c, "idle")
    /\ handle' = [handle EXCEPT ![c] = "none"]
    /\ call' = [call EXCEPT ![c] = NoCall]
    /\ owner' = IF pc[c] = "invoking" THEN Left(call[c]) ELSE owner
    /\ UNCHANGED <<file, temp, asked, result>>

-----------------------------------------------------------------------------
Resume(c) ==
    \/ ResumeSettled(c) \/ ResumeRaises(c)
    \/ \E i \in Inputs : \/ ResumeAdvances(c, i)
                          \/ \E x \in Calls : ResumeInvokes(c, i, x)

Transact(c) == Claim(c) \/ Block(c) \/ Finish(c)

Save(c) == OpenTemp(c) \/ WriteTemp(c) \/ Replace(c) \/ ReplaceFails(c)

Next ==
    \E c \in Clients :
        \/ Load(c) \/ LoadFails(c) \/ Resume(c) \/ Transact(c) \/ RecordOutcome(c)
        \/ Cancel(c) \/ Save(c) \/ Crash(c)

Spec == Init /\ [][Next]_vars

-----------------------------------------------------------------------------
(* Correctness.                                                            *)

Answered(s) == {TypeOf[i] : i \in s.inputs}

\* However commands overtake and overwrite each other, a transaction starts
\* only for a session in which the operator has answered every earlier action.
ApprovalChain ==
    \A c \in Clients : call[c] # NoCall => 1 .. Invocation - 1 \subseteq Answered(copy[c])

\* A session reports what an invocation with one of its own inputs has answered,
\* and is completed only by a transaction that committed or rolled back.
Real(s) ==
    /\ s.outcome # "none" => \E x \in Calls : asked[x] \in s.inputs /\ result[x] = s.outcome
    /\ s.status = "completed" => s.outcome \in {"committed", "rolled_back"}

\* A file that can be read is real, whatever crashes, repeated inputs and
\* overlapping saves there were.
OutcomeReal == file \notin {Torn, Empty} => Real(file)

\* The sessions that are, or may still become, the file.
InPlay == ({file, temp} \cup {copy[c] : c \in Clients}) \ {Torn, Empty, NoFile}

Invoked(s) == {TransactionOf[i] : i \in {j \in s.inputs : TypeOf[j] = Invocation}}

\* Two copies of the session that report an effect of one transaction report
\* the same one, though they may come from different invocations and inputs.
ReportsAgree ==
    \A s, u \in InPlay :
        s.outcome \in Outcomes /\ u.outcome \in Outcomes /\ Invoked(s) \cap Invoked(u) # {}
            => s.outcome = u.outcome
=============================================================================
