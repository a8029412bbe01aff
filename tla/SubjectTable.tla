------------------------------ MODULE SubjectTable ------------------------------
(***************************************************************************)
(* What the subjects table promises to the policy that reads it: a subject  *)
(* is admitted once, by an enrollment, a recovery or the development        *)
(* configuration, and revoked for good: no statement of the code clears     *)
(* subjects.revoked, and enrolling a revoked subject again leaves its row   *)
(* as it is, although docs/operations/kubernetes-profile-runbook.md:46      *)
(* offers `Re-enroll' as the way to have it admitted again.                 *)
(*                                                                         *)
(* Enrollment implements this; UnsealService is built on top of it.         *)
(***************************************************************************)

CONSTANTS
    Subjects,       \* policy subjects
    DevSubjects     \* development_subjects of the configuration

ASSUME SubjectAssumption == DevSubjects \subseteq Subjects

VARIABLES
    subjects,       \* subjects.revoked; "absent" is a subject without a row
    revocations     \* history: the subjects that were ever revoked

subjectVars == <<subjects, revocations>>

SubjectInit ==
    /\ subjects = [s \in Subjects |-> "absent"]
    /\ revocations = {}

\* Slip: the development subjects are written over existing rows.
SeedSubjectsReplacing ==
    [s \in Subjects |-> IF s \in DevSubjects THEN "allowed" ELSE subjects[s]]

\* ConfigureDevelopment, the subjects: INSERT OR IGNORE.
SeedSubjects ==
    [s \in Subjects |->
        IF s \in DevSubjects /\ subjects[s] = "absent" THEN "allowed" ELSE subjects[s]]

\* InsertSubject: INSERT OR IGNORE.
Admitted(s) == IF subjects[s] = "absent" THEN "allowed" ELSE subjects[s]

InsertSubject(s) ==
    /\ subjects' = [subjects EXCEPT ![s] = Admitted(s)]
    /\ UNCHANGED revocations

\* RevokeSubject; a subject without a row is an error.
RevokeSubject(s) ==
    /\ subjects[s] # "absent"
    /\ subjects' = [subjects EXCEPT ![s] = "revoked"]
    /\ revocations' = revocations \union {s}

SubjectNext ==
    \/ subjects' = SeedSubjects /\ UNCHANGED revocations
    \/ \E s \in Subjects : InsertSubject(s) \/ RevokeSubject(s)

SubjectSpec == SubjectInit /\ [][SubjectNext]_subjectVars
================================================================================
