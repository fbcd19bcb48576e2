------------------------------ MODULE KeyedFile ------------------------------
(***************************************************************************)
(* What an indexed COBOL file promises a program: a map from record keys   *)
(* to record data that changes only by the statements that say so, that    *)
(* outlives the run unit, and whose FILE STATUS tells the program what     *)
(* happened.  Nothing is said about handles, caches or side files.         *)
(***************************************************************************)
CONSTANTS Key, Data,
          Absent      \* the file does not exist

VARIABLES content,    \* Absent, or a function from a set of keys to data
          verb,       \* the last statement
          status      \* the FILE STATUS it left

kvars == <<content, verb, status>>

Empty == [k \in {} |-> CHOOSE d \in Data : TRUE]

(* A file that does not exist holds no record. *)
InFile == IF content = Absent THEN Empty ELSE content

Put(m, k, d) == [x \in DOMAIN m \cup {k} |-> IF x = k THEN d ELSE m[x]]
Without(m, k) == [x \in DOMAIN m \ {k} |-> m[x]]

Init == content = Absent /\ verb = "none" /\ status = "00"

(* The statement changed no record.  A file nobody has written to may come *)
(* into being empty, or be forgotten while it is empty: no program can     *)
(* lose a record by it.                                                    *)
Quiet(v, s) ==
  /\ verb' = v /\ status' = s
  /\ \/ content' = content
     \/ content = Absent /\ content' = Empty
     \/ content = Empty /\ content' = Absent

Change(v, m) == content' = m /\ verb' = v /\ status' = "00"

(* OPEN OUTPUT leaves an empty file, whatever there was; the other modes   *)
(* find the file, or report that there is none.                            *)
Open == \/ Change("OPEN", Empty)
        \/ content # Absent /\ Quiet("OPEN", "00")
        \/ content = Absent /\ Quiet("OPEN", "35")

Close      == Quiet("CLOSE", "00")
NextRunUnit == Quiet("none", "00")

Write(k, d) == \/ k \notin DOMAIN InFile /\ Change("WRITE", Put(InFile, k, d))
               \/ k \in DOMAIN InFile /\ Quiet("WRITE", "22")

Rewrite(k, d) == \/ k \in DOMAIN InFile /\ Change("REWRITE", Put(InFile, k, d))
                 \/ k \notin DOMAIN InFile /\ Quiet("REWRITE", "23")

Delete(k) == \/ k \in DOMAIN InFile /\ Change("DELETE", Without(InFile, k))
             \/ k \notin DOMAIN InFile /\ Quiet("DELETE", "23")

(* A positioning or a read succeeds only on a file that has records. *)
Find == \E v \in {"START", "READ"} :
          \/ DOMAIN InFile # {} /\ Quiet(v, "00")
          \/ \E s \in {"10", "23"} : Quiet(v, s)

Next ==
  \/ Open \/ Close \/ NextRunUnit \/ Find
  \/ \E k \in Key : Delete(k)
  \/ \E k \in Key, d \in Data : Write(k, d) \/ Rewrite(k, d)

Spec == Init /\ [][Next]_kvars
=============================================================================
