------------------------------- MODULE AiPresses -------------------------------
(***************************************************************************)
(* The one-off presses of the AI registrator's panel (requestAction,       *)
(* agentConfig, putStatus): a row the agent finds in the settings it polls *)
(* for, does once, and answers in every report from then on.  A press that *)
(* adds a line carries a password sealed for the agent.                    *)
(***************************************************************************)
EXTENDS Integers, Sequences, FiniteSets

CONSTANTS
  Windows,     \* Panel windows, each with one request at a time.
  Reports,     \* Reports the server may be writing at once.
  Buttons,     \* What may be pressed: a kind, and its line.
  Sealed,      \* Those that add a line: one at a time, whichever the line.
  MaxActions,  \* MAX_ACTIONS
  MaxPresses   \* Bound: presses.

ASSUME PressAssumption ==
  Sealed \subseteq Buttons /\ MaxActions \in Nat \ {0} /\ MaxPresses \in Nat

VARIABLES
  presses,   \* The rows, by id: the button, past ACTION_MAX_AGE_MS or not, the agent's
             \* answer, whether the password is there; for the properties, the presses
             \* its request saw, and a poll since it grew old.
  asking,    \* Each window's request: what for, and the presses it saw.
  handed,    \* The ids in the settings the agent last read, and not done.
  done,      \* The ids it has done, and its answer to each.
  report,    \* Each report being written: the answers to the rows found open.
  \* For the properties:
  reopened   \* Presses whose last answer a late report took back.

pressVars == <<presses, asking, handed, done, report, reopened>>

Ids == DOMAIN presses
NotAsking == [at |-> "none"]
NoAnswers == [i \in {} |-> "final"]   \* "final": done, or refused.

PressInit ==
  /\ presses = <<>> /\ asking = [w \in Windows |-> NotAsking]
  /\ handed = {} /\ done = NoAnswers
  /\ report = [r \in Reports |-> NoAnswers] /\ reopened = {}

\* Presses grow old as they came, and no request takes as long.
GrowOld ==
  /\ \E i \in Ids :
       /\ ~presses[i].old /\ \A j \in 1..(i - 1) : presses[j].old
       /\ presses' = [presses EXCEPT ![i].old = TRUE]
  /\ UNCHANGED <<asking, handed, done, report, reopened>>

-------------------------------------------------------------------------------
(* The panel. *)

Unanswered(i) == presses[i].state # "final"

Young(i) == ~presses[i].old

\* openActions: the newest of those the agent may still do.
Open == {i \in Ids : Unanswered(i) /\ Young(i)}

OpenActions == {i \in Open : Cardinality({j \in Open : j > i}) < MaxActions}

\* A press of the same kind and line; any other that adds a line.
Alike(k, l) == k = l \/ {k, l} \subseteq Sealed

Waits(k) == \E i \in OpenActions : Alike(presses[i].key, k)

\* For the properties: the presses a look has before it, none of them when it
\* does not show them all.
Seen == IF OpenActions = Open THEN Len(presses) ELSE 0

\* requestAction, up to its write: the last of the refusals.
LookFirst(w) ==
  /\ asking[w].at = "none"
  /\ \E k \in Buttons : ~Waits(k) /\
       asking' = [asking EXCEPT ![w] = [at |-> "create", key |-> k, seen |-> Seen]]
  /\ UNCHANGED <<presses, handed, done, report, reopened>>

\* createAction
Create(w) ==
  /\ asking[w].at = "create" /\ Len(presses) < MaxPresses
  /\ presses' = Append(presses, [key |-> asking[w].key, old |-> FALSE, state |-> "none",
                                 secret |-> asking[w].key \in Sealed,
                                 seen |-> asking[w].seen, polledOld |-> FALSE])
  /\ asking' = [asking EXCEPT ![w] = NotAsking]
  /\ UNCHANGED <<handed, done, report, reopened>>

CreateFails(w) ==
  /\ asking[w].at = "create" /\ asking' = [asking EXCEPT ![w] = NotAsking]
  /\ UNCHANGED <<presses, handed, done, report, reopened>>

-------------------------------------------------------------------------------
(* The agent, and the server's side of its two calls. *)

\* dropSecrets
Drops(i) == ~Young(i) \/ presses[i].state # "none"

Kept == [i \in Ids |-> [presses[i] EXCEPT !.secret = @ /\ ~Drops(i), !.polledOld = ~Young(i)]]

\* agentConfig: the passwords no longer needed go, then the open presses are
\* handed over, a sealed one only with its password.
Poll ==
  /\ presses' = Kept
  /\ handed' = {i \in OpenActions \ DOMAIN done : Kept[i].key \in Sealed => Kept[i].secret}
  /\ UNCHANGED <<asking, done, report, reopened>>

\* The agent does each press once, and none that is old; it may take a while.
DoPress ==
  /\ \E i \in handed, answer \in {"final", "pending"} :
       /\ Young(i) /\ handed' = handed \ {i}
       /\ done' = [j \in DOMAIN done \cup {i} |-> IF j = i THEN answer ELSE done[j]]
  /\ UNCHANGED <<presses, asking, report, reopened>>

FinishPress ==
  /\ \E i \in DOMAIN done : done[i] = "pending" /\ done' = [done EXCEPT ![i] = "final"]
  /\ UNCHANGED <<presses, asking, handed, report, reopened>>

AnswersYet == {i \in DOMAIN done : Unanswered(i)}

\* putStatus: a report of all it has done; of the rows it names, those open.
ReadAnswered(r) ==
  /\ report[r] = NoAnswers /\ report' = [report EXCEPT ![r] = [i \in AnswersYet |-> done[i]]]
  /\ UNCHANGED <<presses, asking, handed, done, reopened>>

Answered(i, answer) == [presses[i] EXCEPT !.state = answer, !.secret = FALSE]

\* Mutant: the answers are matched with the rows by their place.
AnswerInPlace(r, i) == report[r][CHOOSE j \in DOMAIN report[r] : \A k \in DOMAIN report[r] : j <= k]

AnswerOf(r, i) == report[r][i]

\* Row by row, the answers whose state or text is not the one read.
WriteAnswer(r) ==
  /\ \E i \in DOMAIN report[r] :
       /\ presses' = [presses EXCEPT ![i] = Answered(i, AnswerOf(r, i))]
       /\ report' = [report EXCEPT ![r] = [j \in DOMAIN @ \ {i} |-> @[j]]]
       /\ reopened' = IF AnswerOf(r, i) = "pending" /\ presses[i].state = "final" THEN reopened \cup {i}
                      ELSE reopened
  /\ UNCHANGED <<asking, handed, done>>

\* The rest needs no write, or the process dies part-way.
EndReport(r) ==
  /\ report' = [report EXCEPT ![r] = NoAnswers]
  /\ UNCHANGED <<presses, asking, handed, done, reopened>>

PressNext ==
  \/ GrowOld
  \/ \E w \in Windows : LookFirst(w) \/ Create(w) \/ CreateFails(w)
  \/ Poll \/ DoPress \/ FinishPress
  \/ \E r \in Reports : ReadAnswered(r) \/ WriteAnswer(r) \/ EndReport(r)

PressSpec == PressInit /\ [][PressNext]_pressVars

-------------------------------------------------------------------------------
(* Properties. *)

PressesTypeOK ==
  /\ \A i \in Ids : /\ presses[i].key \in Buttons /\ presses[i].old \in BOOLEAN
                    /\ presses[i].state \in {"none", "pending", "final"}
                    /\ presses[i].secret => presses[i].key \in Sealed
  /\ handed \cup DOMAIN done \subseteq Ids /\ Cardinality(handed) <= MaxActions
  /\ \A r \in Reports : DOMAIN report[r] \subseteq DOMAIN done

(***************************************************************************)
(* A press waits alone: another like it is open only when its request had  *)
(* looked before the first was written, when more presses were open than a *)
(* look shows, or when a late report took back the first one's answer      *)
(* ("never twice while one is still open"), however the agent's answers    *)
(* come and go and however old the presses get.                            *)
(***************************************************************************)
LikePressesCrossed ==
  \A i \in Open \ reopened, j \in Open :
    i < j /\ Alike(presses[i].key, presses[j].key) => presses[j].seen < i

(***************************************************************************)
(* A sealed password is kept only while its press waits for a first        *)
(* answer, and of an old one only until the agent polls again: a poll, an  *)
(* answer and a new press may come in any order.                           *)
(***************************************************************************)
SecretsAreShort ==
  \A i \in Ids : presses[i].secret => presses[i].state = "none" /\ ~presses[i].polledOld

(***************************************************************************)
(* The panel never says of a press what the agent did not: an answer shown *)
(* is the agent's own, and a final one its last word ("a press once done   *)
(* or refused is never rewritten by a later report"): reports cut short,   *)
(* and late ones that take an answer back, leave none that is not so.      *)
(***************************************************************************)
AnswersAreTheAgents ==
  \A i \in Ids : presses[i].state = "final" => i \in DOMAIN done /\ done[i] = "final"

(***************************************************************************)
(* The presses tell the panel and the agent the truth: no press waits      *)
(* beside its like, no password outlives its use, and no answer is shown   *)
(* that was not given.                                                     *)
(***************************************************************************)
PressesAreTrue == LikePressesCrossed /\ SecretsAreShort /\ AnswersAreTheAgents

===============================================================================
