---------------------------- MODULE EnrollmentProofs ----------------------------
(***************************************************************************)
(* Proofs about subject enrollment: grants are used once, local trust state *)
(* rests on them, audit events are true, and the commands implement         *)
(* SubjectTable.                                                            *)
(***************************************************************************)
EXTENDS Enrollment, TLAPS

--------------------------------------------------------------------------------
(* The inductive invariant *)

\* A written request names a subject; a stored grant names a stored request
\* and a subject, and was consumed in time if at all.
RowsInv ==
    /\ \A i \in RequestIds : requests[i] = NoRequest \/ requests[i].subject \in Subjects
    /\ \A g \in GrantIds : grants[g].status # "absent" =>
          grants[g].request \in requestRows /\ grants[g].subject \in Subjects
    /\ \A g \in GrantIds : grants[g].status = "consumed" => grants[g].consumed < grants[g].expires
    /\ \A g \in grantFiles : grants[g].status # "absent"

\* The subjects that were revoked are the revoked rows.
RevokedInv == \A s \in Subjects : s \in revocations <=> subjects[s] = "revoked"

BeforeRow == {"issueSubject", "issueRequest", "issueGrant"}
AfterRow == {"issueFile", "issueAudit"} \union ApplyPcs
Consumed == {"applySubject", "applyTrust", "applyAudit"}

\* A command that has not stored its grant yet has the identifier to itself.
Reserved(p) ==
    cmd[p].pc \in BeforeRow =>
        /\ grants[cmd[p].grant].status = "absent"
        /\ \A q \in Operators : q # p => cmd[q].grant # cmd[p].grant

\* What a command's earlier statements guarantee for its next one.
Earned(p) ==
    /\ cmd[p].pc \in IssuePcs \union ApplyPcs => cmd[p].grant \in GrantIds /\ cmd[p].subject \in Subjects
    /\ cmd[p].pc \in IssuePcs => cmd[p].request \in RequestIds
    /\ cmd[p].pc = "issueGrant" => cmd[p].request \in requestRows
    /\ cmd[p].pc \in AfterRow =>
          grants[cmd[p].grant].status # "absent"
    /\ cmd[p].pc \in {"issueFile", "issueAudit"} => grants[cmd[p].grant].subject = cmd[p].subject
    /\ cmd[p].pc = "issueAudit" => cmd[p].grant \in grantFiles
    /\ cmd[p].pc = "applyUpdate" => cmd[p].at < grants[cmd[p].grant].expires
    /\ cmd[p].pc \in Consumed =>
          grants[cmd[p].grant].status = "consumed" /\ applied[cmd[p].grant] = <<cmd[p].subject>>
    /\ cmd[p].pc = "applyTrust" => subjects[cmd[p].subject] # "absent"
    /\ cmd[p].pc = "applyAudit" => <<cmd[p].grant, cmd[p].subject>> \in trust
    /\ cmd[p].pc = "revokeAudit" => cmd[p].subject \in revocations

CommandInv == \A p \in Operators : Reserved(p) /\ Earned(p)

EnrollInv ==
    /\ EnrollTypeOK
    /\ RowsInv
    /\ RevokedInv
    /\ CommandInv
    /\ GrantSingleUse
    /\ TrustRestsOnGrant
    /\ EventsAreTrue

--------------------------------------------------------------------------------
Commands ==
    [pc : Pcs, request : RequestIds \union {"none"}, grant : GrantIds \union {"none"},
     subject : Subjects \union {"none"}, at : Times]

Grants ==
    [status : {"absent", "open", "consumed"}, request : RequestIds \union {"none"},
     subject : Subjects \union {"none"}, expires : 0..(MaxTime + GrantTTL), consumed : Times]

\* A grant that is used up keeps its request, subject and expiry.
UsedUp(g, t) == [grants[g] EXCEPT !.status = "consumed", !.consumed = t]

\* Going on to a statement and leaving a command keep the shells' type.
LEMMA ShellType ==
    ASSUME EnrollTypeOK, NEW p \in Operators, Exit(p) \/ \E pc \in Pcs : Goto(p, pc)
    PROVE  cmd' \in [Operators -> Commands]
<1>0. cmd \in [Operators -> Commands]
  BY DEF EnrollTypeOK, Commands
<1>1. Idle \in Commands
  BY EnrollmentAssumption DEF Idle, Command, Commands, Pcs, Times
<1>2. CASE Exit(p)
  BY <1>0, <1>1, <1>2 DEF Exit
<1>3. ASSUME NEW pc \in Pcs, Goto(p, pc) PROVE cmd' \in [Operators -> Commands]
  BY <1>0, <1>3 DEF Goto, Commands
<1> QED
  BY <1>2, <1>3

\* An admission keeps the type of the table.
LEMMA AdmissionType ==
    ASSUME EnrollTypeOK, NEW s \in Subjects, InsertSubject(s)
    PROVE  subjects' \in [Subjects -> {"absent", "allowed", "revoked"}] /\ revocations' \subseteq Subjects
  BY DEF EnrollTypeOK, InsertSubject, Admitted

\* The UPDATE uses an open grant up, or finds it used up and ends the command.
LEMMA UpdateEffect ==
    ASSUME EnrollTypeOK, NEW p \in Operators, cmd[p].grant \in GrantIds, ApplyUpdate(p)
    PROVE  \/ /\ grants[cmd[p].grant].status = "open"
              /\ grants' = [grants EXCEPT ![cmd[p].grant] = UsedUp(cmd[p].grant, cmd[p].at)]
              /\ applied' = [applied EXCEPT ![cmd[p].grant] = Append(applied[cmd[p].grant], cmd[p].subject)]
              /\ Goto(p, "applySubject")
           \/ UNCHANGED <<grants, applied>> /\ Exit(p)
<1> DEFINE g == cmd[p].grant
<1>1. grants \in [GrantIds -> Grants] /\ grants[g] \in Grants
  BY DEF EnrollTypeOK, Grants
<1>2. [grants EXCEPT ![g].status = "consumed", ![g].consumed = cmd[p].at]
          = [grants EXCEPT ![g] = UsedUp(g, cmd[p].at)]
  BY <1>1, Zenon DEF UsedUp
<1> QED
  BY <1>2 DEF ApplyUpdate, StillOpen

\* Every step keeps the types.
LEMMA TypeStep == EnrollInv /\ EnrollNext => EnrollTypeOK'
<1> SUFFICES ASSUME EnrollTypeOK, RowsInv, CommandInv, EnrollNext PROVE EnrollTypeOK'
  BY DEF EnrollInv
<1> USE EnrollmentAssumption, SubjectAssumption
<1>1. CASE EnrollRequest
  <2>1. requests' \in [RequestIds ->
            [subject : Subjects \union {"none"}, expires : 0..(MaxTime + RequestTTL)]]
    BY <1>1 DEF EnrollRequest, EnrollTypeOK, Times
  <2> QED
    BY <1>1, <2>1, Zenon DEF EnrollRequest, EnrollTypeOK, subjectVars
<1>2. CASE BrokerStart
  BY <1>2 DEF BrokerStart, SeedSubjects, EnrollTypeOK, fileVars
<1>3. CASE Tick
  <2>1. now' \in Times
    BY <1>3 DEF Tick, EnrollTypeOK, Times
  <2> QED
    BY <2>1, <1>3 DEF Tick, EnrollTypeOK, subjectVars, fileVars
<1>4. ASSUME NEW p \in Operators, IssueRead(p) PROVE EnrollTypeOK'
  BY <1>4 DEF IssueRead, RequestValid, Command, EnrollTypeOK, subjectVars, fileVars, Pcs, IssuePcs
<1>5. ASSUME NEW p \in Operators, IssueSubject(p) PROVE EnrollTypeOK'
  <2>1. cmd[p].subject \in Subjects /\ "issueRequest" \in Pcs
    BY <1>5, Zenon DEF IssueSubject, At, CommandInv, Earned, Pcs, IssuePcs
  <2> QED
    BY <1>5, <2>1, ShellType, AdmissionType, Zenon DEF IssueSubject, EnrollTypeOK, Commands, fileVars
<1>6. ASSUME NEW p \in Operators, IssueRequestRow(p) PROVE EnrollTypeOK'
  <2>1. cmd[p].request \in RequestIds /\ "issueGrant" \in Pcs
    BY <1>6, Zenon DEF IssueRequestRow, At, CommandInv, Earned, Pcs, IssuePcs, ApplyPcs
  <2>2. cmd' \in [Operators -> Commands]
    BY <1>6, <2>1, ShellType DEF IssueRequestRow
  <2> QED
    BY <1>6, <2>1, <2>2 DEF IssueRequestRow, EnrollTypeOK, Commands, subjectVars, fileVars
<1>7. ASSUME NEW p \in Operators, IssueGrantRow(p) PROVE EnrollTypeOK'
  <2>0. cmd[p].at \in 0..MaxTime
    BY DEF EnrollTypeOK, Times
  <2>1. /\ cmd[p].request \in RequestIds /\ cmd[p].grant \in GrantIds /\ cmd[p].subject \in Subjects
        /\ GrantExpiry(p) \in 0..(MaxTime + GrantTTL) /\ "issueFile" \in Pcs
    <3>1. GrantExpiry(p) \in 0..(MaxTime + GrantTTL)
      BY <2>0 DEF GrantExpiry
    <3> QED
      BY <1>7, <3>1, Zenon DEF IssueGrantRow, At, CommandInv, Earned, Pcs, IssuePcs
  <2>2. cmd' \in [Operators -> Commands]
    BY <1>7, <2>1, ShellType DEF IssueGrantRow
  <2>3. grants' \in [GrantIds -> Grants]
    BY <1>7, <2>1 DEF IssueGrantRow, EnrollTypeOK, Grants, Times
  <2> QED
    BY <1>7, <2>2, <2>3, Zenon DEF IssueGrantRow, EnrollTypeOK, Commands, Grants, subjectVars, fileVars
<1>8. ASSUME NEW p \in Operators, IssueFile(p) PROVE EnrollTypeOK'
  <2>1. cmd[p].grant \in GrantIds /\ "issueAudit" \in Pcs
    BY <1>8, Zenon DEF IssueFile, At, CommandInv, Earned, Pcs, IssuePcs, ApplyPcs
  <2>2. cmd' \in [Operators -> Commands]
    BY <1>8, <2>1, ShellType DEF IssueFile
  <2> QED
    BY <1>8, <2>1, <2>2 DEF IssueFile, EnrollTypeOK, Commands, subjectVars, fileVars
<1>9. ASSUME NEW p \in Operators, IssueAudit(p) \/ ApplyAudit(p) \/ RevokeAudit(p) PROVE EnrollTypeOK'
  <2>1. cmd[p].subject \in Subjects
    BY <1>9, Zenon DEF IssueAudit, ApplyAudit, RevokeAudit, At, CommandInv, Earned, EnrollTypeOK, IssuePcs, ApplyPcs
  <2>2. log' \subseteq Subjects \X Reasons
    BY <1>9, <2>1 DEF IssueAudit, ApplyAudit, RevokeAudit, Audit, EnrollTypeOK, Reasons
  <2>3. cmd' \in [Operators -> Commands]
    BY <1>9, ShellType DEF IssueAudit, ApplyAudit, RevokeAudit
  <2> QED
    BY <1>9, <2>2, <2>3 DEF IssueAudit, ApplyAudit, RevokeAudit, EnrollTypeOK, Commands, subjectVars, fileVars
<1>10. ASSUME NEW p \in Operators, ApplyRead(p) PROVE EnrollTypeOK'
  BY <1>10 DEF ApplyRead, GrantDocuments, Command, EnrollTypeOK, subjectVars, fileVars, Pcs, ApplyPcs
<1>11. ASSUME NEW p \in Operators, ApplySelect(p) PROVE EnrollTypeOK'
  <2>1. Exit(p) \/ \E pc \in Pcs : Goto(p, pc)
    BY <1>11 DEF ApplySelect, Pcs, ApplyPcs
  <2> QED
    BY <1>11, <2>1, ShellType DEF ApplySelect, EnrollTypeOK, Commands, subjectVars, fileVars
<1>12. ASSUME NEW p \in Operators, ApplyUpdate(p) PROVE EnrollTypeOK'
  <2>1. Exit(p) \/ \E pc \in Pcs : Goto(p, pc)
    BY <1>12 DEF ApplyUpdate, Pcs, ApplyPcs
  <2>2. cmd[p].grant \in GrantIds /\ cmd[p].subject \in Subjects /\ cmd[p].at \in Times
    BY <1>12, Zenon DEF ApplyUpdate, At, CommandInv, Earned, ApplyPcs, EnrollTypeOK
  <2>3. applied' \in [GrantIds -> Seq(Subjects)] /\ grants' \in [GrantIds -> Grants]
    <3>1. grants \in [GrantIds -> Grants] /\ applied \in [GrantIds -> Seq(Subjects)]
      BY DEF EnrollTypeOK, Grants
    <3>2. UsedUp(cmd[p].grant, cmd[p].at) \in Grants
      BY <2>2, <3>1, ZenonT(60) DEF UsedUp, Grants
    <3>3. Append(applied[cmd[p].grant], cmd[p].subject) \in Seq(Subjects)
      BY <2>2, <3>1
    <3> QED
      BY <1>12, <2>2, <3>1, <3>2, <3>3, UpdateEffect, Zenon
  <2>4. cmd' \in [Operators -> Commands]
    BY <2>1, ShellType
  <2> QED
    BY <1>12, <2>3, <2>4 DEF ApplyUpdate, EnrollTypeOK, Commands, Grants, subjectVars, fileVars
<1>13. ASSUME NEW p \in Operators, ApplySubject(p) PROVE EnrollTypeOK'
  <2>1. cmd[p].subject \in Subjects /\ "applyTrust" \in Pcs
    BY <1>13, Zenon DEF ApplySubject, At, CommandInv, Earned, Pcs, ApplyPcs
  <2> QED
    BY <1>13, <2>1, ShellType, AdmissionType, Zenon DEF ApplySubject, EnrollTypeOK, Commands, fileVars
<1>14. ASSUME NEW p \in Operators, ApplyTrust(p) PROVE EnrollTypeOK'
  <2>1. cmd[p].grant \in GrantIds /\ cmd[p].subject \in Subjects /\ "applyAudit" \in Pcs
    BY <1>14, Zenon DEF ApplyTrust, At, CommandInv, Earned, Pcs, IssuePcs, ApplyPcs
  <2>2. cmd' \in [Operators -> Commands]
    BY <1>14, <2>1, ShellType DEF ApplyTrust
  <2> QED
    BY <1>14, <2>1, <2>2 DEF ApplyTrust, EnrollTypeOK, Commands, subjectVars, fileVars
<1>15. ASSUME NEW p \in Operators, Revoke(p) PROVE EnrollTypeOK'
  BY <1>15 DEF Revoke, RevokeSubject, Command, EnrollTypeOK, fileVars, Pcs
<1>16. ASSUME NEW p \in Operators, CommandFails(p) PROVE EnrollTypeOK'
  BY <1>16 DEF CommandFails, Exit, Idle, Command, EnrollTypeOK, Times, subjectVars, fileVars, Pcs
<1> QED
  BY <1>1, <1>2, <1>3, <1>4, <1>5, <1>6, <1>7, <1>8, <1>9, <1>10, <1>11, <1>12, <1>13, <1>14, <1>15, <1>16
  DEF EnrollNext, ShellStep

--------------------------------------------------------------------------------
\* Nothing is taken back: files, events and rows stay, a stored grant keeps its
\* request, subject and expiry, a used grant everything, a subject its row.
Kept ==
    /\ requestRows \subseteq requestRows' /\ grantFiles \subseteq grantFiles' /\ trust \subseteq trust'
    /\ revocations \subseteq revocations'
    /\ \A g \in GrantIds : grants[g].status # "absent" =>
          /\ grants'[g].status # "absent"
          /\ grants'[g].request = grants[g].request
          /\ grants'[g].subject = grants[g].subject
          /\ grants'[g].expires = grants[g].expires
    /\ \A g \in GrantIds : grants[g].status = "consumed" => grants'[g] = grants[g] /\ applied'[g] = applied[g]
    /\ \A s \in Subjects : subjects[s] # "absent" => subjects'[s] # "absent"

\* No step takes anything back.
LEMMA StepKeeps == EnrollInv /\ EnrollNext => Kept
<1> SUFFICES ASSUME EnrollTypeOK, CommandInv, EnrollNext PROVE Kept
  BY DEF EnrollInv
<1>1. CASE EnrollRequest \/ BrokerStart \/ Tick
  BY <1>1 DEF EnrollRequest, BrokerStart, Tick, SeedSubjects, EnrollTypeOK, Kept, subjectVars, fileVars
<1>2. ASSUME NEW p \in Operators,
             \/ IssueRead(p) \/ IssueRequestRow(p) \/ IssueFile(p) \/ IssueAudit(p) \/ ApplyRead(p)
             \/ ApplySelect(p) \/ ApplyTrust(p) \/ ApplyAudit(p) \/ RevokeAudit(p) \/ CommandFails(p)
      PROVE  Kept
  BY <1>2 DEF IssueRead, IssueRequestRow, IssueFile, IssueAudit, ApplyRead, ApplySelect, ApplyTrust,
     ApplyAudit, RevokeAudit, CommandFails, Kept, subjectVars, fileVars
<1>3. ASSUME NEW p \in Operators, IssueSubject(p) \/ ApplySubject(p) PROVE Kept
  BY <1>3 DEF IssueSubject, ApplySubject, InsertSubject, Admitted, EnrollTypeOK, Kept, fileVars
<1>4. ASSUME NEW p \in Operators, IssueGrantRow(p) PROVE Kept
  <2>1. cmd[p].grant \in GrantIds /\ grants[cmd[p].grant].status = "absent"
    BY <1>4, Zenon DEF IssueGrantRow, At, CommandInv, Reserved, Earned, BeforeRow, IssuePcs
  <2> QED
    BY <1>4, <2>1 DEF IssueGrantRow, EnrollTypeOK, Kept, subjectVars, fileVars
<1>5. ASSUME NEW p \in Operators, ApplyUpdate(p) PROVE Kept
  <2>1. cmd[p].grant \in GrantIds
    BY <1>5, Zenon DEF ApplyUpdate, At, CommandInv, Earned, ApplyPcs
  <2>2. grants \in [GrantIds -> Grants] /\ applied \in [GrantIds -> Seq(Subjects)]
    BY DEF EnrollTypeOK, Grants
  <2>3. UsedUp(cmd[p].grant, cmd[p].at).status = "consumed"
        /\ UsedUp(cmd[p].grant, cmd[p].at).request = grants[cmd[p].grant].request
        /\ UsedUp(cmd[p].grant, cmd[p].at).subject = grants[cmd[p].grant].subject
        /\ UsedUp(cmd[p].grant, cmd[p].at).expires = grants[cmd[p].grant].expires
    BY <2>1, <2>2 DEF UsedUp, Grants
  <2>4. CASE UNCHANGED <<grants, applied>>
    BY <1>5, <2>4 DEF ApplyUpdate, Kept, subjectVars, fileVars
  <2>5. CASE /\ grants[cmd[p].grant].status = "open"
             /\ grants' = [grants EXCEPT ![cmd[p].grant] = UsedUp(cmd[p].grant, cmd[p].at)]
             /\ applied' = [applied EXCEPT ![cmd[p].grant] = Append(applied[cmd[p].grant], cmd[p].subject)]
    <3>1. \A g \in GrantIds : g # cmd[p].grant => grants'[g] = grants[g] /\ applied'[g] = applied[g]
      BY <2>1, <2>2, <2>5
    <3>2. grants'[cmd[p].grant] = UsedUp(cmd[p].grant, cmd[p].at)
      BY <2>1, <2>2, <2>5
    <3> QED
      BY <1>5, <2>1, <2>3, <2>5, <3>1, <3>2, Zenon DEF ApplyUpdate, Kept, subjectVars, fileVars
  <2> QED
    BY <1>5, <2>1, <2>4, <2>5, UpdateEffect
<1>6. ASSUME NEW p \in Operators, Revoke(p) PROVE Kept
  <2>1. subjects \in [Subjects -> {"absent", "allowed", "revoked"}]
    BY DEF EnrollTypeOK
  <2> QED
    BY <1>6, <2>1 DEF Revoke, RevokeSubject, Kept, fileVars
<1> QED
  BY <1>1, <1>2, <1>3, <1>4, <1>5, <1>6 DEF EnrollNext, ShellStep

--------------------------------------------------------------------------------
\* Only storing a grant and using it up change the table of grants.
LEMMA GrantsChange ==
    EnrollNext => \/ UNCHANGED <<grants, applied>>
                  \/ \E p \in Operators : IssueGrantRow(p) \/ ApplyUpdate(p)
  BY DEF EnrollNext, ShellStep, EnrollRequest, BrokerStart, Tick, IssueRead, IssueSubject, IssueRequestRow, IssueFile,
     IssueAudit, ApplyRead, ApplySelect, ApplySubject, ApplyTrust, ApplyAudit, Revoke, RevokeAudit, CommandFails

\* Every step keeps requests, grants and grant files consistent, and counts
\* the one use of a grant.
LEMMA RowsStep == EnrollInv /\ EnrollNext => RowsInv' /\ GrantSingleUse'
<1> SUFFICES ASSUME EnrollInv, EnrollNext PROVE RowsInv' /\ GrantSingleUse'
  OBVIOUS
<1>0. /\ EnrollTypeOK /\ RowsInv /\ CommandInv /\ GrantSingleUse /\ Kept
      /\ grants \in [GrantIds -> Grants] /\ applied \in [GrantIds -> Seq(Subjects)]
  BY StepKeeps DEF EnrollInv, EnrollTypeOK, Grants
<1>1. \A i \in RequestIds : (requests[i] = NoRequest \/ requests[i].subject \in Subjects)'
  <2>1. CASE EnrollRequest
    BY <1>0, <2>1 DEF EnrollRequest, RowsInv, EnrollTypeOK
  <2>2. CASE ~EnrollRequest
    <3>1. UNCHANGED requests
      BY <2>2, Zenon DEF EnrollNext, ShellStep, BrokerStart, Tick, IssueRead, IssueSubject, IssueRequestRow, IssueGrantRow,
         IssueFile, IssueAudit, ApplyRead, ApplySelect, ApplyUpdate, ApplySubject, ApplyTrust, ApplyAudit,
         Revoke, RevokeAudit, CommandFails, fileVars
    <3> QED
      BY <1>0, <3>1 DEF RowsInv
  <2> QED
    BY <2>1, <2>2
<1>2. \A g \in grantFiles' : grants'[g].status # "absent"
  <2>1. CASE \E p \in Operators : IssueFile(p)
    <3>1. PICK p \in Operators : IssueFile(p)
      BY <2>1
    <3>2. cmd[p].grant \in GrantIds /\ grants[cmd[p].grant].status # "absent"
      BY <1>0, <3>1, Zenon DEF IssueFile, At, CommandInv, Earned, AfterRow, IssuePcs
    <3> QED
      BY <1>0, <3>1, <3>2 DEF IssueFile, RowsInv
  <2>2. CASE ~\E p \in Operators : IssueFile(p)
    <3>1. UNCHANGED grantFiles
      BY <2>2, ZenonT(30) DEF EnrollNext, ShellStep, EnrollRequest, BrokerStart, Tick, IssueRead, IssueSubject, IssueRequestRow,
         IssueGrantRow, IssueAudit, ApplyRead, ApplySelect, ApplyUpdate, ApplySubject, ApplyTrust,
         ApplyAudit, Revoke, RevokeAudit, CommandFails, fileVars
    <3> QED
      BY <1>0, <3>1 DEF RowsInv, Kept, EnrollTypeOK
  <2> QED
    BY <2>1, <2>2
<1> DEFINE Stored(g) ==
              /\ grants[g].status # "absent" =>
                    grants[g].request \in requestRows /\ grants[g].subject \in Subjects
              /\ grants[g].status = "consumed" => grants[g].consumed < grants[g].expires
              /\ IF grants[g].status = "consumed" THEN \E s \in Subjects : applied[g] = <<s>>
                                                 ELSE applied[g] = <<>>
<1>3. \A g \in GrantIds : Stored(g)
  BY <1>0 DEF RowsInv, GrantSingleUse
<1>4. \A g \in GrantIds : Stored(g)'
  <2>1. CASE UNCHANGED <<grants, applied>>
    BY <1>0, <1>3, <2>1 DEF Kept
  <2>2. ASSUME NEW p \in Operators, IssueGrantRow(p) PROVE \A g \in GrantIds : Stored(g)'
    <3>1. /\ cmd[p].grant \in GrantIds /\ cmd[p].request \in requestRows /\ cmd[p].subject \in Subjects
          /\ grants[cmd[p].grant].status = "absent"
      BY <1>0, <2>2, Zenon DEF IssueGrantRow, At, CommandInv, Reserved, Earned, BeforeRow, IssuePcs
    <3> QED
      BY <1>0, <1>3, <2>2, <3>1 DEF IssueGrantRow
  <2>3. ASSUME NEW p \in Operators, ApplyUpdate(p) PROVE \A g \in GrantIds : Stored(g)'
    <3>1. cmd[p].grant \in GrantIds /\ cmd[p].subject \in Subjects /\ cmd[p].at < grants[cmd[p].grant].expires
      BY <1>0, <2>3, Zenon DEF ApplyUpdate, At, CommandInv, Earned, ApplyPcs
    <3>2. /\ UsedUp(cmd[p].grant, cmd[p].at).status = "consumed"
          /\ UsedUp(cmd[p].grant, cmd[p].at).consumed = cmd[p].at
          /\ UsedUp(cmd[p].grant, cmd[p].at).request = grants[cmd[p].grant].request
          /\ UsedUp(cmd[p].grant, cmd[p].at).subject = grants[cmd[p].grant].subject
          /\ UsedUp(cmd[p].grant, cmd[p].at).expires = grants[cmd[p].grant].expires
      BY <1>0, <3>1 DEF UsedUp, Grants
    <3>3. requestRows' = requestRows
      BY <2>3 DEF ApplyUpdate
    <3>4. applied[cmd[p].grant] = <<>> => Append(applied[cmd[p].grant], cmd[p].subject) = <<cmd[p].subject>>
      OBVIOUS
    <3> QED
      BY <1>0, <1>3, <2>3, <3>1, <3>2, <3>3, <3>4, UpdateEffect
  <2> QED
    BY <2>1, <2>2, <2>3, GrantsChange
<1> QED
  BY <1>1, <1>2, <1>4 DEF RowsInv, GrantSingleUse

\* Every step keeps revocations and revoked rows the same subjects.
LEMMA RevokedStep == EnrollInv /\ EnrollNext => RevokedInv'
<1> SUFFICES ASSUME EnrollTypeOK, CommandInv, RevokedInv, EnrollNext PROVE RevokedInv'
  BY DEF EnrollInv
<1>1. CASE BrokerStart
  BY <1>1 DEF BrokerStart, SeedSubjects, RevokedInv, EnrollTypeOK
<1>2. ASSUME NEW p \in Operators, IssueSubject(p) \/ ApplySubject(p) PROVE RevokedInv'
  BY <1>2 DEF IssueSubject, ApplySubject, InsertSubject, Admitted, RevokedInv, EnrollTypeOK
<1>3. ASSUME NEW p \in Operators, Revoke(p) PROVE RevokedInv'
  BY <1>3 DEF Revoke, RevokeSubject, RevokedInv, EnrollTypeOK
<1>4. CASE UNCHANGED <<subjects, revocations>>
  BY <1>4 DEF RevokedInv
<1> QED
  BY <1>1, <1>2, <1>3, <1>4, Zenon DEF EnrollNext, ShellStep, EnrollRequest, Tick, IssueRead, IssueRequestRow, IssueGrantRow,
     IssueFile, IssueAudit, ApplyRead, ApplySelect, ApplyUpdate, ApplyTrust, ApplyAudit, RevokeAudit,
     CommandFails, subjectVars

--------------------------------------------------------------------------------
\* What a command has earned does not depend on the other shells.
LEMMA EarnedKept ==
    ASSUME EnrollInv, EnrollNext, NEW q \in Operators, cmd'[q] = cmd[q]
    PROVE  Earned(q)'
<1>1. Kept /\ Earned(q)
  BY StepKeeps DEF EnrollInv, CommandInv
<1> QED
  BY <1>1 DEF Earned, Kept, AfterRow, Consumed, ApplyPcs, IssuePcs

\* Every command earns what its next statement needs.
LEMMA EarnedStep == EnrollInv /\ EnrollNext => \A q \in Operators : Earned(q)'
<1> SUFFICES ASSUME EnrollInv, EnrollNext, NEW q \in Operators PROVE Earned(q)'
  OBVIOUS
<1>0. /\ Earned(q) /\ Kept /\ EnrollTypeOK /\ RowsInv
      /\ q \in DOMAIN cmd /\ DOMAIN cmd[q] = {"pc", "request", "grant", "subject", "at"}
  BY StepKeeps DEF EnrollInv, CommandInv, EnrollTypeOK
<1>1. CASE cmd'[q] = cmd[q]
  BY <1>1, EarnedKept
<1>2. CASE Exit(q)
  BY <1>0, <1>2 DEF Exit, Idle, Command, Earned, AfterRow, Consumed, ApplyPcs, IssuePcs
<1>3. CASE IssueRead(q)
  <2>1. PICK i \in RequestIds, g \in GrantIds :
            /\ RequestValid(i)
            /\ cmd' = [cmd EXCEPT ![q] = Command("issueSubject", i, g, requests[i].subject, now)]
    BY <1>3, Zenon DEF IssueRead
  <2>2. cmd'[q] = Command("issueSubject", i, g, requests[i].subject, now) /\ requests[i].subject \in Subjects
    BY <1>0, <2>1 DEF RequestValid, RowsInv
  <2> QED
    BY <2>2 DEF Command, Earned, AfterRow, Consumed, ApplyPcs, IssuePcs
<1>4. CASE IssueSubject(q)
  BY <1>0, <1>4 DEF IssueSubject, At, Goto, Earned, AfterRow, Consumed, ApplyPcs, IssuePcs
<1>5. CASE IssueRequestRow(q)
  BY <1>0, <1>5 DEF IssueRequestRow, At, Goto, Earned, AfterRow, Consumed, ApplyPcs, IssuePcs
<1>6. CASE IssueGrantRow(q)
  <2>1. /\ cmd[q].request \in RequestIds /\ cmd[q].grant \in GrantIds /\ cmd[q].subject \in Subjects
        /\ cmd' = [cmd EXCEPT ![q].pc = "issueFile"]
    BY <1>0, <1>6 DEF IssueGrantRow, At, Goto, Earned, IssuePcs
  <2>2. grants'[cmd[q].grant].status = "open" /\ grants'[cmd[q].grant].subject = cmd[q].subject
    BY <1>0, <1>6, <2>1 DEF IssueGrantRow, EnrollTypeOK
  <2> QED
    BY <1>0, <2>1, <2>2 DEF Earned, AfterRow, Consumed, ApplyPcs, IssuePcs
<1>7. CASE IssueFile(q)
  BY <1>0, <1>7 DEF IssueFile, At, Goto, Earned, AfterRow, Consumed, ApplyPcs, IssuePcs, subjectVars
<1>8. CASE ApplyRead(q)
  <2>1. PICK f \in GrantDocuments : cmd' = [cmd EXCEPT ![q] = Command("applySelect", "none", f.grant, f.subject, now)]
    BY <1>8, Zenon DEF ApplyRead
  <2>2. f.grant \in GrantIds /\ grants[f.grant].status # "absent" /\ f.subject \in Subjects
    BY <1>0 DEF GrantDocuments, RowsInv, EnrollTypeOK
  <2>3. cmd'[q] = Command("applySelect", "none", f.grant, f.subject, now) /\ grants' = grants
    BY <1>0, <1>8, <2>1 DEF ApplyRead
  <2> QED
    BY <2>2, <2>3 DEF Command, Earned, AfterRow, Consumed, ApplyPcs, IssuePcs
<1>9. CASE ApplySelect(q) /\ Goto(q, "applyUpdate")
  <2>1. CASE Exit(q)
    BY <1>2, <2>1
  <2>2. CASE cmd[q].at < grants[cmd[q].grant].expires
    BY <1>0, <1>9, <2>2 DEF ApplySelect, At, Goto, Earned, AfterRow, Consumed, ApplyPcs, IssuePcs
  <2> QED
    BY <1>9, <2>1, <2>2 DEF ApplySelect
<1>10. CASE ApplyUpdate(q) /\ ~Exit(q)
  <2>1. /\ cmd[q].grant \in GrantIds /\ cmd[q].subject \in Subjects /\ cmd[q].pc = "applyUpdate"
        /\ grants \in [GrantIds -> Grants] /\ applied \in [GrantIds -> Seq(Subjects)]
    BY <1>0, <1>10 DEF ApplyUpdate, At, Earned, ApplyPcs, EnrollTypeOK, Grants
  <2>2. /\ grants[cmd[q].grant].status = "open"
        /\ grants' = [grants EXCEPT ![cmd[q].grant] = UsedUp(cmd[q].grant, cmd[q].at)]
        /\ applied' = [applied EXCEPT ![cmd[q].grant] = Append(applied[cmd[q].grant], cmd[q].subject)]
        /\ cmd' = [cmd EXCEPT ![q].pc = "applySubject"]
    BY <1>0, <1>10, <2>1, UpdateEffect DEF Goto
  <2>3. grants'[cmd[q].grant].status = "consumed" /\ applied'[cmd[q].grant] = <<cmd[q].subject>>
    <3>1. applied[cmd[q].grant] = <<>>
      BY <2>1, <2>2 DEF EnrollInv, GrantSingleUse
    <3>2. Append(applied[cmd[q].grant], cmd[q].subject) = <<cmd[q].subject>>
      BY <3>1
    <3> QED
      BY <2>1, <2>2, <3>2 DEF UsedUp, Grants
  <2> QED
    BY <1>0, <2>1, <2>2, <2>3, Zenon DEF Earned, AfterRow, Consumed, ApplyPcs, IssuePcs
<1>11. CASE ApplySubject(q)
  <2>1. cmd[q].subject \in Subjects /\ cmd[q].pc = "applySubject"
    BY <1>0, <1>11 DEF ApplySubject, At, Earned, ApplyPcs
  <2>2. subjects'[cmd[q].subject] # "absent"
    BY <1>0, <1>11, <2>1 DEF ApplySubject, InsertSubject, Admitted, EnrollTypeOK
  <2> QED
    BY <1>0, <1>11, <2>1, <2>2 DEF ApplySubject, Goto, Earned, AfterRow, Consumed, ApplyPcs, IssuePcs
<1>12. CASE ApplyTrust(q)
  BY <1>0, <1>12 DEF ApplyTrust, At, Goto, Earned, AfterRow, Consumed, ApplyPcs, IssuePcs, subjectVars
<1>13. CASE Revoke(q)
  <2>1. PICK s \in Subjects :
            RevokeSubject(s) /\ cmd' = [cmd EXCEPT ![q] = Command("revokeAudit", "none", "none", s, now)]
    BY <1>13, Zenon DEF Revoke
  <2>2. cmd'[q] = Command("revokeAudit", "none", "none", s, now) /\ s \in revocations'
    BY <1>0, <2>1 DEF RevokeSubject
  <2> QED
    BY <2>2 DEF Command, Earned, AfterRow, Consumed, ApplyPcs, IssuePcs
<1>14. CASE IssueAudit(q) \/ ApplyAudit(q) \/ RevokeAudit(q) \/ CommandFails(q)
  BY <1>2, <1>14 DEF IssueAudit, ApplyAudit, RevokeAudit, CommandFails
<1>15. CASE EnrollRequest \/ BrokerStart \/ Tick
  BY <1>1, <1>15 DEF EnrollRequest, BrokerStart, Tick
<1>16. ASSUME NEW p \in Operators, p # q,
              \/ Exit(p) \/ (\E pc \in Pcs : Goto(p, pc)) \/ IssueRead(p) \/ ApplyRead(p) \/ Revoke(p)
       PROVE  cmd'[q] = cmd[q]
  BY <1>0, <1>16 DEF Exit, Goto, IssueRead, ApplyRead, Revoke
<1> QED
  <2>1. ASSUME NEW p \in Operators, p # q,
               \/ IssueRead(p) \/ IssueSubject(p) \/ IssueRequestRow(p) \/ IssueGrantRow(p)
               \/ IssueFile(p) \/ IssueAudit(p)
               \/ ApplyRead(p) \/ ApplySelect(p) \/ ApplyUpdate(p) \/ ApplySubject(p)
               \/ ApplyTrust(p) \/ ApplyAudit(p)
               \/ Revoke(p) \/ RevokeAudit(p) \/ CommandFails(p)
        PROVE  Earned(q)'
    <3>1. \/ Exit(p) \/ (\E pc \in Pcs : Goto(p, pc)) \/ IssueRead(p) \/ ApplyRead(p) \/ Revoke(p)
      BY <2>1 DEF IssueSubject, IssueRequestRow, IssueGrantRow, IssueFile, IssueAudit, ApplySelect,
         ApplyUpdate, ApplySubject, ApplyTrust, ApplyAudit, RevokeAudit, CommandFails, Pcs, IssuePcs, ApplyPcs
    <3> QED
      BY <1>1, <1>16, <2>1, <3>1
  <2>2. CASE ApplySelect(q) \/ ApplyUpdate(q)
    BY <1>2, <1>9, <1>10, <2>2 DEF ApplySelect
  <2> QED
    BY <1>3, <1>4, <1>5, <1>6, <1>7, <1>8, <1>11, <1>12, <1>13, <1>14, <1>15, <2>1, <2>2 DEF EnrollNext, ShellStep

\* Every command keeps its identifier to itself until its grant is stored.
LEMMA ReservedStep == EnrollInv /\ EnrollNext => \A q \in Operators : Reserved(q)'
<1> SUFFICES ASSUME EnrollInv, EnrollNext PROVE \A q \in Operators : Reserved(q)'
  OBVIOUS
<1>0. /\ EnrollTypeOK /\ RowsInv /\ "none" \notin GrantIds
      /\ \A q \in Operators : Reserved(q) /\ Earned(q)
      /\ cmd \in [Operators -> Commands]
  BY EnrollmentAssumption DEF EnrollInv, CommandInv, EnrollTypeOK, Commands
\* Shells keep their grants or drop them, and reserve no new one.
<1> DEFINE Settled ==
              /\ \A q \in Operators : cmd'[q].grant \in {cmd[q].grant, "none"}
              /\ \A q \in Operators : cmd'[q].pc \in BeforeRow =>
                    cmd[q].pc \in BeforeRow /\ cmd'[q].grant = cmd[q].grant /\ cmd[q].grant \in GrantIds
<1>1. ASSUME Settled,
             \A q \in Operators : cmd'[q].pc \in BeforeRow =>
                grants'[cmd[q].grant].status = grants[cmd[q].grant].status
      PROVE  \A q \in Operators : Reserved(q)'
  BY <1>0, <1>1 DEF Reserved
<1>2. CASE EnrollRequest \/ BrokerStart \/ Tick
  <2>1. cmd' = cmd /\ grants' = grants
    BY <1>2 DEF EnrollRequest, BrokerStart, Tick
  <2> QED
    BY <1>0, <2>1 DEF Reserved
<1>3. ASSUME NEW p \in Operators, Exit(p) PROVE Settled
  BY <1>0, <1>3, Zenon DEF Exit, Idle, Command, Commands, BeforeRow, Earned, IssuePcs
<1>4. ASSUME NEW p \in Operators, NEW pc, Goto(p, pc), pc \in BeforeRow => cmd[p].pc \in BeforeRow
      PROVE  Settled
  <2>1. \A q \in Operators : cmd'[q].grant = cmd[q].grant /\ (q # p => cmd'[q].pc = cmd[q].pc)
    BY <1>0, <1>4 DEF Goto, Commands
  <2>2. cmd'[p].pc = pc
    BY <1>0, <1>4 DEF Goto, Commands
  <2> QED
    BY <1>0, <1>4, <2>1, <2>2, Zenon DEF BeforeRow, Earned, IssuePcs
<1>5. ASSUME NEW p \in Operators,
             \/ IssueSubject(p) \/ IssueRequestRow(p) \/ IssueFile(p) \/ IssueAudit(p) \/ ApplySelect(p)
             \/ ApplySubject(p) \/ ApplyTrust(p) \/ ApplyAudit(p) \/ RevokeAudit(p) \/ CommandFails(p)
      PROVE  Settled /\ grants' = grants
  <2>1. grants' = grants
    BY <1>5 DEF IssueSubject, IssueRequestRow, IssueFile, IssueAudit, ApplySelect, ApplySubject,
       ApplyTrust, ApplyAudit, RevokeAudit, CommandFails
  <2>2. \/ Exit(p)
        \/ \E pc \in Pcs : Goto(p, pc) /\ (pc \in BeforeRow => cmd[p].pc \in BeforeRow)
    BY <1>5 DEF IssueSubject, IssueRequestRow, IssueFile, IssueAudit, ApplySelect, ApplySubject,
       ApplyTrust, ApplyAudit, RevokeAudit, CommandFails, At, BeforeRow, Pcs, IssuePcs, ApplyPcs
  <2> QED
    BY <1>3, <1>4, <2>1, <2>2
<1>6. ASSUME NEW p \in Operators, IssueGrantRow(p) PROVE \A q \in Operators : Reserved(q)'
  <2>0. cmd[p].pc = "issueGrant" /\ Goto(p, "issueFile")
    BY <1>6 DEF IssueGrantRow, At
  <2>1. Settled /\ cmd'[p].pc = "issueFile" /\ cmd[p].pc = "issueGrant"
    <3>1. Settled
      BY <1>0, <1>4, <2>0 DEF BeforeRow
    <3> QED
      BY <1>0, <2>0, <3>1 DEF Goto, Commands
  <2>2. ASSUME NEW q \in Operators, cmd'[q].pc \in BeforeRow
        PROVE  grants'[cmd[q].grant].status = grants[cmd[q].grant].status
    <3>1. q # p /\ cmd[q].grant # cmd[p].grant /\ cmd[q].grant \in GrantIds
      BY <1>0, <2>1, <2>2 DEF Reserved, BeforeRow
    <3> QED
      BY <1>0, <1>6, <3>1 DEF IssueGrantRow, EnrollTypeOK
  <2> QED
    BY <1>1, <2>1, <2>2
<1>7. ASSUME NEW p \in Operators, ApplyUpdate(p) PROVE \A q \in Operators : Reserved(q)'
  <2>1. cmd[p].grant \in GrantIds /\ cmd[p].pc = "applyUpdate" /\ grants \in [GrantIds -> Grants]
    BY <1>0, <1>7, Zenon DEF ApplyUpdate, At, Earned, ApplyPcs, EnrollTypeOK, Grants
  <2>2. Settled
    BY <1>0, <1>3, <1>4, <1>7 DEF ApplyUpdate, BeforeRow
  <2>3. ASSUME NEW q \in Operators, cmd'[q].pc \in BeforeRow
        PROVE  grants'[cmd[q].grant].status = grants[cmd[q].grant].status
    <3>1. grants[cmd[q].grant].status = "absent" /\ cmd[q].grant \in GrantIds
      BY <1>0, <2>2, <2>3 DEF Reserved
    <3> QED
      BY <1>0, <1>7, <2>1, <3>1, UpdateEffect
  <2> QED
    BY <1>1, <2>2, <2>3
<1>8. ASSUME NEW p \in Operators, Revoke(p) PROVE Settled /\ grants' = grants
  <2>1. PICK s \in Subjects : cmd' = [cmd EXCEPT ![p] = Command("revokeAudit", "none", "none", s, now)]
    BY <1>8, Zenon DEF Revoke
  <2>2. /\ cmd'[p].grant = "none" /\ cmd'[p].pc = "revokeAudit"
        /\ \A q \in Operators : q # p => cmd'[q] = cmd[q]
    BY <1>0, <2>1 DEF Command
  <2> QED
    BY <1>0, <1>8, <2>2, Zenon DEF Revoke, BeforeRow, Earned, IssuePcs
<1>9. ASSUME NEW p \in Operators, IssueRead(p) PROVE \A q \in Operators : Reserved(q)'
  <2>1. PICK i \in RequestIds, g \in GrantIds :
            /\ FreshGrant(g)
            /\ cmd' = [cmd EXCEPT ![p] = Command("issueSubject", i, g, requests[i].subject, now)]
    BY <1>9, Zenon DEF IssueRead
  <2>2. cmd'[p].grant = g /\ grants' = grants /\ \A q \in Operators : q # p => cmd'[q] = cmd[q]
    BY <1>0, <1>9, <2>1 DEF IssueRead, Command
  <2> QED
    BY <1>0, <2>1, <2>2 DEF FreshGrant, Reserved
<1>10. ASSUME NEW p \in Operators, ApplyRead(p) PROVE \A q \in Operators : Reserved(q)'
  <2>1. PICK f \in GrantDocuments : cmd' = [cmd EXCEPT ![p] = Command("applySelect", "none", f.grant, f.subject, now)]
    BY <1>10, Zenon DEF ApplyRead
  <2>2. /\ cmd'[p].grant = f.grant /\ cmd'[p].pc = "applySelect" /\ grants' = grants
        /\ \A q \in Operators : q # p => cmd'[q] = cmd[q]
    BY <1>0, <1>10, <2>1 DEF ApplyRead, Command
  <2>3. grants[f.grant].status # "absent"
    BY <1>0 DEF GrantDocuments, RowsInv
  <2> QED
    BY <1>0, <2>2, <2>3 DEF Reserved, BeforeRow
<1> QED
  BY <1>1, <1>2, <1>5, <1>6, <1>7, <1>8, <1>9, <1>10 DEF EnrollNext, ShellStep

--------------------------------------------------------------------------------
\* Every step keeps the basis of the trust states.
LEMMA TrustStep == EnrollInv /\ EnrollNext => TrustRestsOnGrant'
<1> SUFFICES ASSUME EnrollInv, EnrollNext, NEW g \in GrantIds, NEW s \in Subjects, <<g, s>> \in trust'
             PROVE  /\ grants'[g].status = "consumed"
                    /\ applied'[g] = <<s>>
                    /\ grants'[g].consumed < grants'[g].expires
                    /\ grants'[g].request \in requestRows'
                    /\ subjects'[s] = IF s \in revocations' THEN "revoked" ELSE "allowed"
  BY DEF TrustRestsOnGrant
<1>0. /\ EnrollTypeOK' /\ RowsInv' /\ RevokedInv' /\ CommandInv /\ TrustRestsOnGrant /\ Kept
  BY TypeStep, RowsStep, RevokedStep, StepKeeps DEF EnrollInv
<1>1. grants[g].status = "consumed" /\ applied[g] = <<s>> /\ subjects[s] # "absent"
  <2>1. CASE <<g, s>> \in trust
    BY <1>0, <2>1 DEF TrustRestsOnGrant
  <2>2. CASE <<g, s>> \notin trust
    <3>1. PICK p \in Operators : ApplyTrust(p) /\ <<g, s>> = <<cmd[p].grant, cmd[p].subject>>
      BY <2>2, Zenon DEF EnrollNext, ShellStep, EnrollRequest, BrokerStart, Tick, IssueRead, IssueSubject, IssueRequestRow,
         IssueGrantRow, IssueFile, IssueAudit, ApplyRead, ApplySelect, ApplyUpdate, ApplySubject, ApplyTrust,
         ApplyAudit, Revoke, RevokeAudit, CommandFails, fileVars
    <3>2. g = cmd[p].grant /\ s = cmd[p].subject
      BY <3>1
    <3> QED
      BY <1>0, <3>1, <3>2, Zenon DEF ApplyTrust, At, CommandInv, Earned, Consumed
  <2> QED
    BY <2>1, <2>2
<1>2. grants'[g] = grants[g] /\ applied'[g] = applied[g] /\ subjects'[s] # "absent"
  BY <1>0, <1>1 DEF Kept
<1> QED
  BY <1>0, <1>1, <1>2 DEF RowsInv, RevokedInv, EnrollTypeOK

\* Every step keeps the events true.
LEMMA EventsStep == EnrollInv /\ EnrollNext => EventsAreTrue'
<1> SUFFICES ASSUME EnrollInv, EnrollNext PROVE EventsAreTrue'
  OBVIOUS
<1>0. /\ EnrollTypeOK /\ RowsInv /\ RevokedInv /\ RevokedInv' /\ CommandInv /\ EventsAreTrue /\ Kept
      /\ TrustRestsOnGrant
  BY RevokedStep, StepKeeps DEF EnrollInv
<1> DEFINE Basis(s, reason) ==
              /\ reason = "issued" => \E g \in grantFiles : grants[g].subject = s
              /\ reason = "applied" => \E g \in GrantIds : <<g, s>> \in trust
              /\ reason = "revoked" => subjects[s] = "revoked"
<1>1. ASSUME NEW s \in Subjects, NEW reason \in Reasons, Basis(s, reason) PROVE Basis(s, reason)'
  <2>1. \A g \in grantFiles : g \in grantFiles' /\ grants'[g].subject = grants[g].subject
    BY <1>0 DEF Kept, RowsInv, EnrollTypeOK
  <2>2. trust \subseteq trust'
    BY <1>0 DEF Kept
  <2>3. subjects[s] = "revoked" => subjects'[s] = "revoked"
    BY <1>0 DEF Kept, RevokedInv
  <2> QED
    BY <1>1, <2>1, <2>2, <2>3
<1>2. ASSUME NEW s \in Subjects, NEW reason \in Reasons, <<s, reason>> \in log PROVE Basis(s, reason)
  BY <1>0, <1>2 DEF EventsAreTrue
<1>3. ASSUME NEW s \in Subjects, NEW reason \in Reasons, <<s, reason>> \in log', <<s, reason>> \notin log
      PROVE  Basis(s, reason)
  <2>1. PICK p \in Operators : IssueAudit(p) \/ ApplyAudit(p) \/ RevokeAudit(p)
    BY <1>3, Zenon DEF EnrollNext, ShellStep, EnrollRequest, BrokerStart, Tick, IssueRead, IssueSubject, IssueRequestRow,
       IssueGrantRow, IssueFile, ApplyRead, ApplySelect, ApplyUpdate, ApplySubject, ApplyTrust, Revoke,
       CommandFails
  <2>2. CASE IssueAudit(p)
    <3>1. s = cmd[p].subject /\ reason = "issued"
      BY <1>3, <2>2 DEF IssueAudit, Audit
    <3> QED
      BY <1>0, <2>2, <3>1, Zenon DEF IssueAudit, At, CommandInv, Earned, AfterRow
  <2>3. CASE ApplyAudit(p)
    <3>1. s = cmd[p].subject /\ reason = "applied"
      BY <1>3, <2>3 DEF ApplyAudit, Audit
    <3> QED
      BY <1>0, <2>3, <3>1, Zenon DEF ApplyAudit, At, CommandInv, Earned, AfterRow, ApplyPcs
  <2>4. CASE RevokeAudit(p)
    <3>1. s = cmd[p].subject /\ reason = "revoked"
      BY <1>3, <2>4 DEF RevokeAudit, Audit
    <3> QED
      BY <1>0, <2>4, <3>1, Zenon DEF RevokeAudit, At, CommandInv, Earned, RevokedInv
  <2> QED
    BY <2>1, <2>2, <2>3, <2>4
<1>4. \A s \in Subjects, reason \in Reasons : <<s, reason>> \in log' => Basis(s, reason)'
  BY <1>1, <1>2, <1>3
<1> QED
  BY <1>4, Zenon DEF EventsAreTrue, Reasons

--------------------------------------------------------------------------------
\* The invariant is inductive.
LEMMA EnrollInductive == EnrollSpec => []EnrollInv
<1>1. EnrollInit => EnrollInv
  <2> SUFFICES ASSUME EnrollInit PROVE EnrollInv
    OBVIOUS
  <2>1. Idle \in Commands /\ NoGrant \in Grants
    BY EnrollmentAssumption DEF Idle, NoGrant, Command, Commands, Grants, Pcs, Times
  <2>2. EnrollTypeOK
    BY <2>1, EnrollmentAssumption DEF EnrollInit, SubjectInit, NoRequest, EnrollTypeOK, Commands, Grants, Times
  <2>3. RowsInv /\ RevokedInv /\ GrantSingleUse /\ TrustRestsOnGrant /\ EventsAreTrue
    BY DEF EnrollInit, SubjectInit, NoGrant, RowsInv, RevokedInv, GrantSingleUse, TrustRestsOnGrant, EventsAreTrue
  <2>4. CommandInv
    BY DEF EnrollInit, Idle, Command, CommandInv, Reserved, Earned, BeforeRow, AfterRow, Consumed, IssuePcs, ApplyPcs
  <2> QED
    BY <2>2, <2>3, <2>4 DEF EnrollInv
<1>2. EnrollInv /\ EnrollNext => EnrollInv'
  BY TypeStep, RowsStep, RevokedStep, EarnedStep, ReservedStep, TrustStep, EventsStep DEF EnrollInv, CommandInv
<1>3. EnrollInv /\ UNCHANGED enrollVars => EnrollInv'
  <2> SUFFICES ASSUME EnrollInv, UNCHANGED enrollVars PROVE EnrollInv'
    OBVIOUS
  <2> USE DEF enrollVars, subjectVars, fileVars, EnrollInv
  <2>1. EnrollTypeOK'
    BY DEF EnrollTypeOK
  <2>2. RowsInv' /\ RevokedInv'
    BY DEF RowsInv, RevokedInv
  <2>3. CommandInv'
    BY DEF CommandInv, Reserved, Earned
  <2>4. GrantSingleUse' /\ TrustRestsOnGrant' /\ EventsAreTrue'
    BY DEF GrantSingleUse, TrustRestsOnGrant, EventsAreTrue
  <2> QED
    BY <2>1, <2>2, <2>3, <2>4
<1> QED
  BY <1>1, <1>2, <1>3, PTL DEF EnrollSpec

\* Files, rows and commands keep their types in every execution of the
\* enrollment commands.
THEOREM EnrollTypeCorrect == EnrollSpec => []EnrollTypeOK
<1>1. EnrollInv => EnrollTypeOK
  BY DEF EnrollInv
<1> QED
  BY <1>1, EnrollInductive, PTL

\* However many shells apply a grant, ConsumeEnrollmentGrant succeeds once.
THEOREM GrantsUsedOnce == EnrollSpec => []GrantSingleUse
<1>1. EnrollInv => GrantSingleUse
  BY DEF EnrollInv
<1> QED
  BY <1>1, EnrollInductive, PTL

\* enroll apply writes local trust state only on the strength of a grant that it
\* used up itself, having begun before the expiry that the broker stored, for
\* the subject it used it up for, which is admitted unless it was revoked.
THEOREM TrustIsFounded == EnrollSpec => []TrustRestsOnGrant
<1>1. EnrollInv => TrustRestsOnGrant
  BY DEF EnrollInv
<1> QED
  BY <1>1, EnrollInductive, PTL

\* The events that issue, apply and revoke leave behind are true.
THEOREM EventsTrue == EnrollSpec => []EventsAreTrue
<1>1. EnrollInv => EventsAreTrue
  BY DEF EnrollInv
<1> QED
  BY <1>1, EnrollInductive, PTL

--------------------------------------------------------------------------------
(* Where subjects come from *)

\* A request file that was written stays as it is.
LEMMA RequestsStay == EnrollTypeOK /\ EnrollNext => Requested \subseteq Requested'
<1> SUFFICES ASSUME EnrollTypeOK, EnrollNext PROVE Requested \subseteq Requested'
  OBVIOUS
<1>1. CASE EnrollRequest
  <2>1. PICK i \in RequestIds, s \in Subjects :
            /\ requests[i] = NoRequest
            /\ requests' = [requests EXCEPT ![i] = [subject |-> s, expires |-> now + RequestTTL]]
    BY <1>1, Zenon DEF EnrollRequest
  <2>2. \A j \in RequestIds : requests[j] # NoRequest => requests'[j] = requests[j]
    BY <2>1 DEF EnrollTypeOK
  <2> QED
    BY <2>2 DEF Requested
<1>2. CASE UNCHANGED requests
  BY <1>2 DEF Requested
<1> QED
  BY <1>1, <1>2, Zenon DEF EnrollNext, ShellStep, BrokerStart, Tick, IssueRead, IssueSubject, IssueRequestRow,
     IssueGrantRow, IssueFile, IssueAudit, ApplyRead, ApplySelect, ApplyUpdate, ApplySubject, ApplyTrust,
     ApplyAudit, Revoke, RevokeAudit, CommandFails, fileVars

\* A subject for whom a grant was used up stays one.
LEMMA UsesStay == EnrollInv /\ EnrollNext => AppliedFor \subseteq AppliedFor'
<1> SUFFICES ASSUME EnrollInv, EnrollNext, NEW s \in Subjects, NEW g \in GrantIds, applied[g] = <<s>>
             PROVE  applied'[g] = <<s>>
  BY DEF AppliedFor
<1>1. grants[g].status = "consumed"
  BY DEF EnrollInv, GrantSingleUse
<1> QED
  BY <1>1, StepKeeps DEF Kept

\* An issue at work carries a subject that was requested.
CarriesRequested(p) == cmd[p].pc \in IssuePcs => cmd[p].subject \in Requested

RequestedInv == AdmissionsAreAccounted /\ \A p \in Operators : CarriesRequested(p)

\* The commands add the subject they carry, or a row they found.
LEMMA ShellsMoveSubjects ==
    ASSUME CommandInv, NEW p \in Operators, ShellStep(p)
    PROVE  \/ UNCHANGED subjectVars
           \/ /\ cmd[p].pc \in IssuePcs \union Consumed
              /\ cmd[p].subject \in Subjects
              /\ InsertSubject(cmd[p].subject)
           \/ \E s \in Subjects : RevokeSubject(s)
<1>1. CASE IssueSubject(p) \/ ApplySubject(p)
  <2>1. cmd[p].pc \in IssuePcs \union Consumed
    BY <1>1 DEF IssueSubject, ApplySubject, At, IssuePcs, Consumed
  <2>2. cmd[p].subject \in Subjects
    BY <2>1, Zenon DEF CommandInv, Earned, Consumed, ApplyPcs
  <2> QED
    BY <1>1, <2>1, <2>2 DEF IssueSubject, ApplySubject
<1>2. CASE Revoke(p)
  BY <1>2 DEF Revoke
<1> QED
  BY <1>1, <1>2, Zenon DEF ShellStep, IssueRead, IssueRequestRow, IssueGrantRow, IssueFile, IssueAudit, ApplyRead,
     ApplySelect, ApplyUpdate, ApplyTrust, ApplyAudit, RevokeAudit, CommandFails

\* A new row in subjects is a development subject's, a requested one's or that
\* of a subject for whom the command has used a grant up.
LEMMA SubjectsAccounted ==
    ASSUME EnrollInv, RequestedInv, EnrollNext
    PROVE  \A s \in Subjects : subjects'[s] # "absent" => s \in DevSubjects \union Requested \union AppliedFor
<1> DEFINE Known == DevSubjects \union Requested \union AppliedFor
<1> SUFFICES ASSUME NEW s \in Subjects, subjects'[s] # "absent" PROVE s \in Known
  OBVIOUS
<1>0. subjects \in [Subjects -> {"absent", "allowed", "revoked"}] /\ CommandInv
  BY DEF EnrollInv, EnrollTypeOK
<1>1. CASE subjects[s] # "absent"
  BY <1>1 DEF RequestedInv, AdmissionsAreAccounted
<1>2. CASE BrokerStart
  BY <1>1, <1>2 DEF BrokerStart, SeedSubjects
<1>3. ASSUME NEW p \in Operators, ShellStep(p) PROVE s \in Known
  <2>1. CASE UNCHANGED subjectVars
    BY <1>1, <2>1 DEF subjectVars
  <2>2. CASE /\ cmd[p].pc \in IssuePcs \union Consumed
             /\ cmd[p].subject \in Subjects
             /\ InsertSubject(cmd[p].subject)
    <3>1. ASSUME cmd[p].pc \in IssuePcs PROVE cmd[p].subject \in Known
      BY <3>1 DEF RequestedInv, CarriesRequested
    <3>2. ASSUME cmd[p].pc \in Consumed PROVE cmd[p].subject \in Known
      <4>1. cmd[p].grant \in GrantIds /\ applied[cmd[p].grant] = <<cmd[p].subject>>
        BY <1>0, <3>2, Zenon DEF CommandInv, Earned, Consumed, ApplyPcs
      <4> QED
        BY <2>2, <4>1 DEF AppliedFor
    <3>3. cmd[p].subject \in Known
      BY <2>2, <3>1, <3>2
    <3>4. s = cmd[p].subject \/ subjects'[s] = subjects[s]
      BY <1>0, <2>2 DEF InsertSubject
    <3> QED
      BY <1>1, <3>3, <3>4
  <2>3. ASSUME NEW t \in Subjects, RevokeSubject(t) PROVE s \in Known
    BY <1>0, <1>1, <2>3 DEF RevokeSubject
  <2> QED
    BY <1>0, <1>3, <2>1, <2>2, <2>3, ShellsMoveSubjects
<1>4. CASE UNCHANGED subjects
  BY <1>1, <1>4
<1> QED
  BY <1>2, <1>3, <1>4, Zenon DEF EnrollNext, EnrollRequest, Tick, subjectVars

\* A grant is made out to the subject that its command carries.
LEMMA GrantsRequested ==
    ASSUME EnrollInv, RequestedInv, EnrollNext
    PROVE  \A g \in GrantIds : grants'[g].status # "absent" => grants'[g].subject \in Requested
<1> SUFFICES ASSUME NEW g \in GrantIds, grants'[g].status # "absent" PROVE grants'[g].subject \in Requested
  OBVIOUS
<1>0. grants \in [GrantIds -> Grants] /\ EnrollTypeOK /\ CommandInv
  BY DEF EnrollInv, EnrollTypeOK, Grants
<1>1. CASE grants'[g] = grants[g]
  BY <1>1 DEF RequestedInv, AdmissionsAreAccounted
<1>2. ASSUME NEW p \in Operators, IssueGrantRow(p) PROVE grants'[g].subject \in Requested
  <2>1. cmd[p].subject \in Requested
    BY <1>2 DEF IssueGrantRow, At, IssuePcs, RequestedInv, CarriesRequested
  <2>2. CASE g # cmd[p].grant
    BY <1>0, <1>1, <1>2, <2>2 DEF IssueGrantRow
  <2>3. CASE g = cmd[p].grant
    BY <1>0, <1>2, <2>1, <2>3 DEF IssueGrantRow
  <2> QED
    BY <2>2, <2>3
<1>3. ASSUME NEW p \in Operators, ApplyUpdate(p) PROVE grants'[g].subject \in Requested
  <2>1. cmd[p].grant \in GrantIds /\ grants[cmd[p].grant].status # "absent"
    BY <1>0, <1>3, Zenon DEF ApplyUpdate, At, CommandInv, Earned, AfterRow, ApplyPcs
  <2>2. CASE g # cmd[p].grant
    BY <1>0, <1>1, <1>3, <2>1, <2>2, UpdateEffect
  <2>3. CASE g = cmd[p].grant
    <3>0. UsedUp(g, cmd[p].at).subject = grants[g].subject
      BY <1>0 DEF UsedUp, Grants
    <3>1. grants'[g].subject = grants[g].subject
      BY <1>0, <1>3, <2>1, <2>3, <3>0, UpdateEffect
    <3> QED
      BY <2>1, <2>3, <3>1 DEF RequestedInv, AdmissionsAreAccounted
  <2> QED
    BY <2>2, <2>3
<1>4. CASE UNCHANGED grants
  BY <1>1, <1>4
<1> QED
  BY <1>2, <1>3, <1>4, Zenon DEF EnrollNext, ShellStep, EnrollRequest, BrokerStart, Tick, IssueRead, IssueSubject,
     IssueRequestRow, IssueFile, IssueAudit, ApplyRead, ApplySelect, ApplySubject, ApplyTrust, ApplyAudit, Revoke,
     RevokeAudit, CommandFails

\* An issue takes its subject from a request file and keeps it.
LEMMA CommandsRequested ==
    ASSUME EnrollInv, RequestedInv, EnrollNext
    PROVE  \A q \in Operators : cmd'[q].pc \in IssuePcs => cmd'[q].subject \in Requested
<1> SUFFICES ASSUME NEW q \in Operators, cmd'[q].pc \in IssuePcs PROVE cmd'[q].subject \in Requested
  OBVIOUS
<1>0. cmd \in [Operators -> Commands]
  BY DEF EnrollInv, EnrollTypeOK, Commands
<1>1. ASSUME cmd[q].pc \in IssuePcs, cmd'[q].subject = cmd[q].subject PROVE cmd'[q].subject \in Requested
  BY <1>1 DEF RequestedInv, CarriesRequested
<1>2. CASE cmd'[q] = cmd[q]
  BY <1>1, <1>2
<1>3. ASSUME NEW p \in Operators, Exit(p) PROVE cmd'[q].subject \in Requested
  <2>1. q # p
    BY <1>0, <1>3 DEF Exit, Idle, Command, IssuePcs
  <2> QED
    BY <1>0, <1>2, <1>3, <2>1 DEF Exit
<1>4. ASSUME NEW p \in Operators, NEW pc, Goto(p, pc), pc \in IssuePcs => cmd[p].pc \in IssuePcs
      PROVE  cmd'[q].subject \in Requested
  <2>1. cmd'[q].subject = cmd[q].subject /\ (q = p => cmd'[q].pc = pc)
    BY <1>0, <1>4 DEF Goto, Commands
  <2>2. q = p \/ cmd'[q] = cmd[q]
    BY <1>0, <1>4 DEF Goto
  <2> QED
    BY <1>1, <1>2, <1>4, <2>1, <2>2
<1>5. ASSUME NEW p \in Operators, IssueRead(p) PROVE cmd'[q].subject \in Requested
  <2>1. PICK i \in RequestIds, g \in GrantIds :
            /\ RequestValid(i)
            /\ cmd' = [cmd EXCEPT ![p] = Command("issueSubject", i, g, requests[i].subject, now)]
    BY <1>5, Zenon DEF IssueRead
  <2>2. requests[i].subject \in Requested
    BY <2>1 DEF RequestValid, Requested
  <2> QED
    BY <1>0, <1>2, <2>1, <2>2 DEF Command
<1>6. ASSUME NEW p \in Operators, ApplyRead(p) PROVE cmd'[q].subject \in Requested
  <2>1. PICK f \in GrantDocuments : cmd' = [cmd EXCEPT ![p] = Command("applySelect", "none", f.grant, f.subject, now)]
    BY <1>6, Zenon DEF ApplyRead
  <2>2. q # p
    BY <1>0, <2>1 DEF Command, IssuePcs
  <2> QED
    BY <1>0, <1>2, <2>1, <2>2
<1>7. ASSUME NEW p \in Operators, Revoke(p) PROVE cmd'[q].subject \in Requested
  <2>1. PICK s \in Subjects : cmd' = [cmd EXCEPT ![p] = Command("revokeAudit", "none", "none", s, now)]
    BY <1>7, Zenon DEF Revoke
  <2>2. q # p
    BY <1>0, <2>1 DEF Command, IssuePcs
  <2> QED
    BY <1>0, <1>2, <2>1, <2>2
<1>8. ASSUME NEW p \in Operators,
             \/ IssueSubject(p) \/ IssueRequestRow(p) \/ IssueGrantRow(p) \/ IssueFile(p)
             \/ ApplySelect(p) \/ ApplyUpdate(p) \/ ApplySubject(p) \/ ApplyTrust(p)
      PROVE  Exit(p) \/ \E pc : Goto(p, pc) /\ (pc \in IssuePcs => cmd[p].pc \in IssuePcs)
  BY <1>8 DEF IssueSubject, IssueRequestRow, IssueGrantRow, IssueFile, ApplySelect, ApplyUpdate, ApplySubject,
     ApplyTrust, At, IssuePcs
<1>9. ASSUME NEW p \in Operators, IssueAudit(p) \/ ApplyAudit(p) \/ RevokeAudit(p) \/ CommandFails(p)
      PROVE  Exit(p)
  BY <1>9 DEF IssueAudit, ApplyAudit, RevokeAudit, CommandFails
<1>10. ASSUME NEW p \in Operators, ShellStep(p) PROVE cmd'[q].subject \in Requested
  BY <1>3, <1>4, <1>5, <1>6, <1>7, <1>8, <1>9, <1>10, Zenon DEF ShellStep
<1>11. CASE UNCHANGED cmd
  BY <1>2, <1>11
<1> QED
  BY <1>10, <1>11, Zenon DEF EnrollNext, EnrollRequest, BrokerStart, Tick

\* Everybody who is admitted was configured or asked for, or is the one subject
\* for whom a grant was used up; and grants are issued to requested subjects
\* only, through any number of issues and applies side by side.
THEOREM AdmissionsAccounted == EnrollSpec => []AdmissionsAreAccounted
<1>1. EnrollInit => RequestedInv
  BY DEF EnrollInit, SubjectInit, NoGrant, Idle, Command, RequestedInv, AdmissionsAreAccounted, CarriesRequested,
     IssuePcs
<1>2. EnrollInv /\ RequestedInv /\ EnrollNext => RequestedInv'
  <2> SUFFICES ASSUME EnrollInv, RequestedInv, EnrollNext PROVE RequestedInv'
    OBVIOUS
  <2>1. Requested \subseteq Requested' /\ AppliedFor \subseteq AppliedFor'
    BY RequestsStay, UsesStay DEF EnrollInv
  <2>2. AdmissionsAreAccounted'
    BY <2>1, SubjectsAccounted, GrantsRequested DEF AdmissionsAreAccounted
  <2>3. \A p \in Operators : CarriesRequested(p)'
    BY <2>1, CommandsRequested DEF CarriesRequested
  <2> QED
    BY <2>2, <2>3 DEF RequestedInv
<1>3. RequestedInv /\ UNCHANGED enrollVars => RequestedInv'
  BY DEF RequestedInv, AdmissionsAreAccounted, CarriesRequested, Requested, AppliedFor, enrollVars, subjectVars, fileVars
<1>4. RequestedInv => AdmissionsAreAccounted
  BY DEF RequestedInv
<1> QED
  BY <1>1, <1>2, <1>3, <1>4, EnrollInductive, PTL DEF EnrollSpec

\* The commands and the broker's seeding implement SubjectTable: nothing
\* readmits a revoked subject.
THEOREM SubjectTableRefinement == EnrollSpec => ImplementsSubjectTable
<1>1. EnrollInit => SubjectInit
  BY DEF EnrollInit
<1>2. EnrollInv /\ EnrollNext => SubjectNext \/ UNCHANGED subjectVars
  <2> SUFFICES ASSUME CommandInv, EnrollNext PROVE SubjectNext \/ UNCHANGED subjectVars
    BY DEF EnrollInv
  <2>1. CASE BrokerStart
    BY <2>1 DEF BrokerStart, SubjectNext
  <2>2. ASSUME NEW p \in Operators, ShellStep(p) PROVE SubjectNext \/ UNCHANGED subjectVars
    BY <2>2, ShellsMoveSubjects DEF SubjectNext
  <2> QED
    BY <2>1, <2>2, Zenon DEF EnrollNext, EnrollRequest, Tick
<1>3. UNCHANGED enrollVars => UNCHANGED subjectVars
  BY DEF enrollVars
<1> QED
  BY <1>1, <1>2, <1>3, EnrollInductive, PTL DEF EnrollSpec, ImplementsSubjectTable, SubjectSpec
================================================================================
