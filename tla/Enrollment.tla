------------------------------- MODULE Enrollment -------------------------------
(***************************************************************************)
(* Subject enrollment with bao-unsealctl: a target writes a request file,   *)
(* `enroll issue` turns it into a one-time grant, `enroll apply` uses the   *)
(* grant up, `revoke` ends the admission.                                   *)
(*                                                                         *)
(* Every command is a process that runs several SQLite statements, none of  *)
(* them inside a transaction, writes a file and audits last; any of these   *)
(* can fail, and commands of several shells interleave.  The cluster is     *)
(* initialised.  This module implements SubjectTable.                       *)
(*                                                                         *)
(* A grant exists twice: as the row that issue stores and as the file that  *)
(* apply is given.  Of the row, apply reads whether it is used up and when  *)
(* it expires; the subject it admits is the file's.  The signature of the   *)
(* file is made with a key drawn for it and checked with the public half in *)
(* the same file: it shows that the file is whole, not which command wrote  *)
(* it.  So apply's input is any well-formed file for a grant that was       *)
(* handed out.                                                              *)
(***************************************************************************)
EXTENDS SubjectTable, Naturals, Sequences

CONSTANTS
    Operators,      \* shells that run commands
    RequestIds,     \* randomID("req")
    GrantIds,       \* randomID("grant")
    RequestTTL,     \* -ttl of enroll request
    GrantTTL,       \* -ttl of enroll issue
    MaxTime         \* bound on the clock

ASSUME EnrollmentAssumption ==
    /\ RequestTTL \in Nat
    /\ GrantTTL \in Nat
    /\ MaxTime \in Nat
    /\ "none" \notin Subjects \union RequestIds \union GrantIds

VARIABLES
    now,          \* the clock of the hosts
    requests,     \* request files: subject and expiry
    requestRows,  \* enrollment_requests
    grants,       \* enrollment_grants
    grantFiles,   \* grants whose file was written
    trust,        \* local trust states: <<grant, subject>>
    log,          \* audit events: <<subject, reason>>
    applied,      \* history: the subjects of the commands that used each grant up
    cmd           \* the command each shell runs

fileVars == <<requests, grantFiles, trust>>
enrollVars == <<subjectVars, now, fileVars, requestRows, grants, log, applied, cmd>>

Times == 0..MaxTime
Reasons == {"issued", "applied", "revoked"}
IssuePcs == {"issueSubject", "issueRequest", "issueGrant", "issueFile", "issueAudit"}
ApplyPcs == {"applySelect", "applyUpdate", "applySubject", "applyTrust", "applyAudit"}
Pcs == {"idle", "revokeAudit"} \union IssuePcs \union ApplyPcs

NoRequest == [subject |-> "none", expires |-> 0]
NoGrant == [status |-> "absent", request |-> "none", subject |-> "none", expires |-> 0, consumed |-> 0]

\* A command: the statement it runs next, the request and grant it works on,
\* the subject they name, and the time it read when it started.
Command(pc, i, g, s, t) == [pc |-> pc, request |-> i, grant |-> g, subject |-> s, at |-> t]
Idle == Command("idle", "none", "none", "none", 0)

EnrollInit ==
    /\ SubjectInit
    /\ now = 0
    /\ requests = [i \in RequestIds |-> NoRequest]
    /\ requestRows = {}
    /\ grants = [g \in GrantIds |-> NoGrant]
    /\ grantFiles = {}
    /\ trust = {}
    /\ log = {}
    /\ applied = [g \in GrantIds |-> <<>>]
    /\ cmd = [p \in Operators |-> Idle]

At(p, pc) == cmd[p].pc = pc
Goto(p, pc) == cmd' = [cmd EXCEPT ![p].pc = pc]
Exit(p) == cmd' = [cmd EXCEPT ![p] = Idle]
Audit(p, reason) == log' = log \union {<<cmd[p].subject, reason>>}

--------------------------------------------------------------------------------
(* enroll request: a file, no database *)

EnrollRequest ==
    /\ \E i \in RequestIds, s \in Subjects :
          /\ requests[i] = NoRequest
          /\ requests' = [requests EXCEPT ![i] = [subject |-> s, expires |-> now + RequestTTL]]
    /\ UNCHANGED <<subjectVars, now, requestRows, grants, grantFiles, trust, log, applied, cmd>>

--------------------------------------------------------------------------------
(* enroll issue *)

FreshGrant(g) == grants[g].status = "absent" /\ \A p \in Operators : cmd[p].grant # g

\* Request.Validate, on a request file that exists.
RequestValid(i) == requests[i] # NoRequest /\ now < requests[i].expires

\* The request is read and validated, and a grant with a fresh identifier is
\* signed in memory; IssueGrant refuses one that would be expired at once.
IssueRead(p) ==
    /\ At(p, "idle")
    /\ GrantTTL > 0
    /\ \E i \in RequestIds, g \in GrantIds :
          /\ RequestValid(i)
          /\ FreshGrant(g)
          /\ cmd' = [cmd EXCEPT ![p] = Command("issueSubject", i, g, requests[i].subject, now)]
    /\ UNCHANGED <<subjectVars, now, fileVars, requestRows, grants, log, applied>>

\* Slip: INSERT OR REPLACE brings a revoked subject back.
IssueSubjectReplacing(p) ==
    /\ At(p, "issueSubject")
    /\ subjects' = [subjects EXCEPT ![cmd[p].subject] = "allowed"]
    /\ Goto(p, "issueRequest")
    /\ UNCHANGED <<revocations, now, fileVars, requestRows, grants, log, applied>>

\* The subject is admitted when the grant is issued.
IssueSubject(p) ==
    /\ At(p, "issueSubject")
    /\ InsertSubject(cmd[p].subject)
    /\ Goto(p, "issueRequest")
    /\ UNCHANGED <<now, fileVars, requestRows, grants, log, applied>>

\* InsertEnrollmentRequest: INSERT OR REPLACE, so that one request can be
\* granted more than once.
IssueRequestRow(p) ==
    /\ At(p, "issueRequest")
    /\ requestRows' = requestRows \union {cmd[p].request}
    /\ Goto(p, "issueGrant")
    /\ UNCHANGED <<subjectVars, now, fileVars, grants, log, applied>>

GrantExpiry(p) == cmd[p].at + GrantTTL

\* InsertEnrollmentGrant
IssueGrantRow(p) ==
    /\ At(p, "issueGrant")
    /\ grants' = [grants EXCEPT ![cmd[p].grant] =
          [status |-> "open", request |-> cmd[p].request, subject |-> cmd[p].subject,
           expires |-> GrantExpiry(p), consumed |-> 0]]
    /\ Goto(p, "issueFile")
    /\ UNCHANGED <<subjectVars, now, fileVars, requestRows, log, applied>>

IssueFile(p) ==
    /\ At(p, "issueFile")
    /\ grantFiles' = grantFiles \union {cmd[p].grant}
    /\ Goto(p, "issueAudit")
    /\ UNCHANGED <<subjectVars, now, requests, trust, requestRows, grants, log, applied>>

IssueAudit(p) ==
    /\ At(p, "issueAudit")
    /\ Audit(p, "issued")
    /\ Exit(p)
    /\ UNCHANGED <<subjectVars, now, fileVars, requestRows, grants, applied>>

--------------------------------------------------------------------------------
(* enroll apply *)

\* Well-formed grant files, for grants that were handed out.
GrantDocuments ==
    [grant : grantFiles, subject : Subjects, expires : 0..(MaxTime + GrantTTL)]

\* Grant.Verify: the time is before the expiry that the file carries.
GrantVerifies(f) == now < f.expires

\* A grant file is read and verified, the keyring found loadable.
ApplyRead(p) ==
    /\ At(p, "idle")
    /\ \E f \in GrantDocuments :
          /\ GrantVerifies(f)
          /\ cmd' = [cmd EXCEPT ![p] = Command("applySelect", "none", f.grant, f.subject, now)]
    /\ UNCHANGED <<subjectVars, now, fileVars, requestRows, grants, log, applied>>

\* Slip: the expiry of the row is left to Grant.Verify.
ApplySelectUndated(p) ==
    /\ At(p, "applySelect")
    /\ IF grants[cmd[p].grant].status = "open" THEN Goto(p, "applyUpdate") ELSE Exit(p)
    /\ UNCHANGED <<subjectVars, now, fileVars, requestRows, grants, log, applied>>

\* ConsumeEnrollmentGrant, the SELECT: the row is not consumed and, by the clock
\* reading of the command's start, not expired.
ApplySelect(p) ==
    /\ At(p, "applySelect")
    /\ IF grants[cmd[p].grant].status = "open" /\ cmd[p].at < grants[cmd[p].grant].expires
       THEN Goto(p, "applyUpdate")
       ELSE Exit(p)
    /\ UNCHANGED <<subjectVars, now, fileVars, requestRows, grants, log, applied>>

\* Slip: the UPDATE does not ask whether the grant was consumed.
StillOpenUnchecked(g) == TRUE

\* UPDATE ... WHERE consumed_at IS NULL affects a row.
StillOpen(g) == grants[g].status = "open"

\* ConsumeEnrollmentGrant, the UPDATE.
ApplyUpdate(p) ==
    LET g == cmd[p].grant IN
    /\ At(p, "applyUpdate")
    /\ \/ /\ StillOpen(g)
          /\ grants' = [grants EXCEPT ![g].status = "consumed", ![g].consumed = cmd[p].at]
          /\ applied' = [applied EXCEPT ![g] = Append(@, cmd[p].subject)]
          /\ Goto(p, "applySubject")
       \/ /\ ~StillOpen(g)
          /\ Exit(p)
          /\ UNCHANGED <<grants, applied>>
    /\ UNCHANGED <<subjectVars, now, fileVars, requestRows, log>>

\* Slip: a trust state that cannot be written is ignored.
ApplySubjectOnly(p) ==
    /\ At(p, "applySubject")
    /\ InsertSubject(cmd[p].subject)
    /\ Goto(p, "applyTrust") \/ Goto(p, "applyAudit")
    /\ UNCHANGED <<now, fileVars, requestRows, grants, log, applied>>

ApplySubject(p) ==
    /\ At(p, "applySubject")
    /\ InsertSubject(cmd[p].subject)
    /\ Goto(p, "applyTrust")
    /\ UNCHANGED <<now, fileVars, requestRows, grants, log, applied>>

\* writeLocalTrustState
ApplyTrust(p) ==
    /\ At(p, "applyTrust")
    /\ trust' = trust \union {<<cmd[p].grant, cmd[p].subject>>}
    /\ Goto(p, "applyAudit")
    /\ UNCHANGED <<subjectVars, now, requests, grantFiles, requestRows, grants, log, applied>>

ApplyAudit(p) ==
    /\ At(p, "applyAudit")
    /\ Audit(p, "applied")
    /\ Exit(p)
    /\ UNCHANGED <<subjectVars, now, fileVars, requestRows, grants, applied>>

--------------------------------------------------------------------------------
(* revoke, and the environment *)

\* Slip: an upsert, which leaves a row for a subject that had none.
RevokeCreating(p) ==
    /\ At(p, "idle")
    /\ \E s \in Subjects :
          /\ subjects' = [subjects EXCEPT ![s] = "revoked"]
          /\ revocations' = revocations \union {s}
          /\ cmd' = [cmd EXCEPT ![p] = Command("revokeAudit", "none", "none", s, now)]
    /\ UNCHANGED <<now, fileVars, requestRows, grants, log, applied>>

Revoke(p) ==
    /\ At(p, "idle")
    /\ \E s \in Subjects :
          /\ RevokeSubject(s)
          /\ cmd' = [cmd EXCEPT ![p] = Command("revokeAudit", "none", "none", s, now)]
    /\ UNCHANGED <<now, fileVars, requestRows, grants, log, applied>>

RevokeAudit(p) ==
    /\ At(p, "revokeAudit")
    /\ Audit(p, "revoked")
    /\ Exit(p)
    /\ UNCHANGED <<subjectVars, now, fileVars, requestRows, grants, applied>>

\* A broker start with development subjects.
BrokerStart ==
    /\ subjects' = SeedSubjects
    /\ UNCHANGED <<revocations, now, fileVars, requestRows, grants, log, applied, cmd>>

\* A statement, a file or an audit sink fails, or the process is killed.
CommandFails(p) ==
    /\ ~At(p, "idle")
    /\ Exit(p)
    /\ UNCHANGED <<subjectVars, now, fileVars, requestRows, grants, log, applied>>

Tick ==
    /\ now < MaxTime
    /\ now' = now + 1
    /\ UNCHANGED <<subjectVars, fileVars, requestRows, grants, log, applied, cmd>>

ShellStep(p) ==
    \/ IssueRead(p) \/ IssueSubject(p) \/ IssueRequestRow(p) \/ IssueGrantRow(p)
    \/ IssueFile(p) \/ IssueAudit(p)
    \/ ApplyRead(p) \/ ApplySelect(p) \/ ApplyUpdate(p) \/ ApplySubject(p)
    \/ ApplyTrust(p) \/ ApplyAudit(p)
    \/ Revoke(p) \/ RevokeAudit(p) \/ CommandFails(p)

EnrollNext ==
    \/ EnrollRequest \/ BrokerStart \/ Tick
    \/ \E p \in Operators : ShellStep(p)

EnrollSpec == EnrollInit /\ [][EnrollNext]_enrollVars

--------------------------------------------------------------------------------
(* Properties *)

\* Every file, row and command has a value the code can produce.
EnrollTypeOK ==
    /\ subjects \in [Subjects -> {"absent", "allowed", "revoked"}]
    /\ revocations \subseteq Subjects
    /\ now \in Times
    /\ requests \in [RequestIds ->
          [subject : Subjects \union {"none"}, expires : 0..(MaxTime + RequestTTL)]]
    /\ requestRows \subseteq RequestIds
    /\ grants \in [GrantIds ->
          [status : {"absent", "open", "consumed"}, request : RequestIds \union {"none"},
           subject : Subjects \union {"none"}, expires : 0..(MaxTime + GrantTTL), consumed : Times]]
    /\ grantFiles \subseteq GrantIds
    /\ trust \subseteq GrantIds \X Subjects
    /\ log \subseteq Subjects \X Reasons
    /\ applied \in [GrantIds -> Seq(Subjects)]
    /\ cmd \in [Operators ->
          [pc : Pcs, request : RequestIds \union {"none"}, grant : GrantIds \union {"none"},
           subject : Subjects \union {"none"}, at : Times]]

\* The threat model's "single use": a grant is used up by at most one enroll
\* apply, and so for one subject, although SELECT and UPDATE are two statements
\* that applies of several shells interleave.
GrantSingleUse ==
    \A g \in GrantIds :
        IF grants[g].status = "consumed" THEN \E s \in Subjects : applied[g] = <<s>>
                                         ELSE applied[g] = <<>>

\* Local trust state is written only by the one command that used the grant up,
\* for the subject it used it up for.  That command began before the expiry of
\* the row, whatever expiry its file carried (the clock is read once, so the
\* UPDATE itself may come later); the grant was issued for a stored request; and
\* the broker admits the subject unless an operator revoked it.
TrustRestsOnGrant ==
    \A g \in GrantIds, s \in Subjects : <<g, s>> \in trust =>
        /\ grants[g].status = "consumed"
        /\ applied[g] = <<s>>
        /\ grants[g].consumed < grants[g].expires
        /\ grants[g].request \in requestRows
        /\ subjects[s] = IF s \in revocations THEN "revoked" ELSE "allowed"

\* Subjects that a request file names.
Requested == {requests[i].subject : i \in {j \in RequestIds : requests[j] # NoRequest}}

\* Subjects for which a grant was used up.
AppliedFor == {s \in Subjects : \E g \in GrantIds : applied[g] = <<s>>}

\* Everybody who has a row in subjects was named in the development
\* configuration or a request file, or is the one subject for which a grant was
\* used up; and every grant was issued to somebody whom a request file names.
\* apply does not compare its file's subject with the row's, so that the second
\* case is not part of the first.
AdmissionsAreAccounted ==
    /\ \A s \in Subjects :
          subjects[s] # "absent" => s \in DevSubjects \union Requested \union AppliedFor
    /\ \A g \in GrantIds : grants[g].status # "absent" => grants[g].subject \in Requested

\* The subjects table only moves as SubjectTable promises.  In particular a
\* revoked subject that is enrolled again stays revoked: the INSERT OR IGNORE of
\* issue and apply finds its row, and the runbook's "Re-enroll"
\* (docs/operations/kubernetes-profile-runbook.md:46) succeeds without restoring
\* the subject.
ImplementsSubjectTable == SubjectSpec

\* An audit event comes last in its command, so it tells of a grant that was
\* handed out, a trust state that was written, a revocation that is in force.
EventsAreTrue ==
    /\ \A s \in Subjects : <<s, "issued">> \in log => \E g \in grantFiles : grants[g].subject = s
    /\ \A s \in Subjects : <<s, "applied">> \in log => \E g \in GrantIds : <<g, s>> \in trust
    /\ \A s \in Subjects : <<s, "revoked">> \in log => subjects[s] = "revoked"
================================================================================
