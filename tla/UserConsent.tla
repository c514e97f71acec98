----------------------------- MODULE UserConsent -----------------------------
(***************************************************************************)
(* What the dialogs promise to those who ask for them, without goroutines, *)
(* locks and timers: one question is put to the user at a time; callers    *)
(* that ask the same may share it, except for a PIN; it gets one verdict,  *)
(* and the verdict is told to callers that still wait for this question.   *)
(* A caller may be denied before the verdict, is told at most one thing,   *)
(* and may leave without being told.                                       *)
(***************************************************************************)
CONSTANTS
    Callers,     \* those who ask
    None,        \* no question
    Params,      \* what can be asked
    PINParams    \* the question for the PIN

VARIABLES
    question,    \* the question before the user, named by the caller who raised it
    asks,        \* what each caller asks
    joined,      \* the question whose verdict it waits for
    verdict,     \* of each question
    status       \* of each caller

consentVars == <<question, asks, joined, verdict, status>>

AskersOf(q) == {c \in Callers : status[c] = "waiting" /\ joined[c] = q}

ConsentInit ==
    /\ question = None
    /\ asks = [c \in Callers |-> PINParams]
    /\ joined = [c \in Callers |-> None]
    /\ verdict = [c \in Callers |-> "none"]
    /\ status = [c \in Callers |-> "idle"]

WaitFor(c, q, p) ==
    /\ status[c] = "idle"
    /\ status' = [status EXCEPT ![c] = "waiting"]
    /\ asks' = [asks EXCEPT ![c] = p]
    /\ joined' = [joined EXCEPT ![c] = q]
    /\ UNCHANGED verdict

Ask(c, p) ==
    /\ question = None
    /\ question' = c
    /\ WaitFor(c, c, p)

Share(c, p) ==
    /\ question # None
    /\ asks[question] = p
    /\ WaitFor(c, question, p)
    /\ UNCHANGED question

TurnAway(c) ==
    /\ question # None
    /\ status[c] = "idle"
    /\ status' = [status EXCEPT ![c] = "gone"]
    /\ UNCHANGED <<question, asks, joined, verdict>>

Decide(r) ==
    /\ question # None
    /\ verdict[question] = "none"
    /\ verdict' = [verdict EXCEPT ![question] = r]
    /\ \E told \in SUBSET AskersOf(question) :
        status' = [c \in Callers |-> IF c \in told THEN r ELSE status[c]]
    /\ UNCHANGED <<question, asks, joined>>

Finish ==
    /\ question # None
    /\ verdict[question] # "none"
    /\ question' = None
    /\ UNCHANGED <<asks, joined, verdict, status>>

Deny(c) ==
    /\ status[c] = "waiting"
    /\ status' = [status EXCEPT ![c] = "denied"]
    /\ UNCHANGED <<question, asks, joined, verdict>>

Depart(c) ==
    /\ status[c] \in {"waiting", "ok", "denied"}
    /\ status' = [status EXCEPT ![c] = "gone"]
    /\ UNCHANGED <<question, asks, joined, verdict>>

ConsentNext ==
    \/ \E c \in Callers :
        \/ \E p \in Params \cup {PINParams} : Ask(c, p)
        \/ \E p \in Params : Share(c, p)
        \/ TurnAway(c) \/ Deny(c) \/ Depart(c)
    \/ \E r \in {"ok", "denied"} : Decide(r)
    \/ Finish

ConsentSpec == ConsentInit /\ [][ConsentNext]_consentVars
=============================================================================
