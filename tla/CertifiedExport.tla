-------------------------- MODULE CertifiedExport --------------------------
(***************************************************************************)
(* What the control plane promises a customer.  A run goes through         *)
(* attempts; an attempt gets at most one verdict, which nothing changes    *)
(* while it lasts; a customer signs off one tree of a VERIFIED attempt,    *)
(* and no other tree than its own; what is handed out was signed off.      *)
(* Nothing is said about threads, slots, stages, seals, disks or crashes.  *)
(***************************************************************************)
EXTENDS Naturals

CONSTANTS Run,      \* runs
          Last,     \* the last attempt a run may have
          Trees     \* of an attempt: the trees it may end with

VARIABLES state,    \* of a run: "absent", "working" on an attempt, "ended"
          attempt,  \* the attempt a run is in
          verdict,  \* the verdict of that attempt
          decision, \* the customer's decision on it
          signed,   \* trees signed off, with the attempt they belong to
          exported  \* trees handed out

certifiedVars == <<state, attempt, verdict, decision, signed, exported>>

Init ==
  /\ state = [r \in Run |-> "absent"]
  /\ attempt = [r \in Run |-> 0]
  /\ verdict = [r \in Run |-> "none"]
  /\ decision = [r \in Run |-> "PENDING"]
  /\ signed = {} /\ exported = {}

Start(r) ==
  /\ state[r] = "absent"
  /\ state' = [state EXCEPT ![r] = "working"]
  /\ UNCHANGED <<attempt, verdict, decision, signed, exported>>

\* The attempt goes on or ends, and may get the verdict it does not have yet.
Work(r, s, v) ==
  /\ state[r] = "working" /\ s \in {"working", "ended"}
  /\ verdict[r] \in {"none", v}
  /\ state' = [state EXCEPT ![r] = s]
  /\ verdict' = [verdict EXCEPT ![r] = v]
  /\ UNCHANGED <<attempt, decision, signed, exported>>

\* A crash ends every attempt there is.
Interrupt ==
  /\ state' = [r \in Run |-> IF state[r] = "working" THEN "ended" ELSE state[r]]
  /\ UNCHANGED <<attempt, verdict, decision, signed, exported>>

\* A new attempt is undecided: neither verdict nor decision carries over.
Retry(r) ==
  /\ state[r] = "ended" /\ attempt[r] < Last
  /\ state' = [state EXCEPT ![r] = "working"]
  /\ attempt' = [attempt EXCEPT ![r] = @ + 1]
  /\ verdict' = [verdict EXCEPT ![r] = "none"]
  /\ decision' = [decision EXCEPT ![r] = "PENDING"]
  /\ UNCHANGED <<signed, exported>>

\* An attempt may be approved again, but only for the tree it was approved for.
Approve(r) ==
  /\ verdict[r] = "VERIFIED"
  /\ decision' = [decision EXCEPT ![r] = "APPROVED"]
  /\ \E c \in Trees[attempt[r]] :
       /\ \A s \in signed : s.run = r /\ s.gen = attempt[r] => s.content = c
       /\ signed' = signed \cup
            {[run |-> r, gen |-> attempt[r], content |-> c]}
  /\ UNCHANGED <<state, attempt, verdict, exported>>

Reject(r) ==
  /\ state[r] # "absent"
  /\ decision' = [decision EXCEPT ![r] = "REJECTED"]
  /\ UNCHANGED <<state, attempt, verdict, signed, exported>>

Export(tree) ==
  /\ tree \in signed
  /\ exported' = exported \cup {tree}
  /\ UNCHANGED <<state, attempt, verdict, decision, signed>>

Next ==
  \/ \E r \in Run : \/ Start(r) \/ Retry(r) \/ Approve(r) \/ Reject(r)
                    \/ \E s \in {"working", "ended"},
                          v \in {"none", "VERIFIED", "OTHER"} : Work(r, s, v)
  \/ Interrupt
  \/ \E tree \in signed : Export(tree)

Spec == Init /\ [][Next]_certifiedVars
=============================================================================
