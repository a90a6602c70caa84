---------------------------- MODULE EmailThreads ----------------------------
(***************************************************************************)
(* What becomes of the reply of an e-mail job: the conversation an e-mail  *)
(* belongs to (integrations/email/normalizer), the thread row and the      *)
(* records of e-mails that persistEmailThread writes behind the job's      *)
(* back, deliverToEmail with the retries of sendEmail, and the mail        *)
(* programs at the other end, which answer a reply with its headers or     *)
(* without them.  The other caller of deliverToEmail, an approved          *)
(* follow-up, names nobody: the thread row says to whom it goes.  Claims,  *)
(* crashes and repeated runs of jobs are in EmailJobs, approvals in        *)
(* FollowUp, the creation of conversations in Turns.                       *)
(***************************************************************************)
EXTENDS Integers, Sequences, SequencesExt

CONSTANTS
  MaxMails,   \* bound: e-mails that arrive, and follow-ups
  MaxRuns,    \* bound: e-mails that are also processed
  Authors,    \* addresses they come from
  Subjects,   \* subjects, without "Re:" and in lower case; Blank is none
  Openings,   \* author, subject, and whether there is a Message-ID, of new exchanges
  Transport,  \* "smtp" or "resend"
  MaxFaults   \* bound: statements that fail, and answers of the provider that are lost

Blank == 0

\* What a reply to an e-mail without a subject has for one.
NoSubject == 1

Nobody == 0

ASSUME EmailThreadsAssumption ==
  /\ MaxMails \in Nat /\ MaxRuns \in Nat /\ MaxFaults \in Nat
  /\ Authors \subseteq Nat \ {Nobody} /\ Subjects \subseteq Nat /\ NoSubject \in Subjects
  /\ Openings \subseteq Authors \X Subjects \X BOOLEAN
  /\ Transport \in {"smtp", "resend"}

MAX_RETRIES == 2

VARIABLES
  mail,     \* the e-mails received and the follow-ups approved, in order
  rows,     \* email_threads
  records,  \* email_messages, in the order of their creation
  job,      \* the run of each
  faults

vars == <<mail, rows, records, job, faults>>

Mails == 1..Len(mail)

\* Ids of e-mails, and other keys of conversations: what they are of, and what kind.
Id(e, kind) == <<e, kind>>
NoId == Id(0, "none")

Fault == faults < MaxFaults /\ faults' = faults + 1
NoFault == faults' = faults

-----------------------------------------------------------------------------
(* Headers.                                                                *)

\* The key of an e-mail's conversation.
resolveThreadId(m) ==
  CASE m.references # <<>> -> Head(m.references)
    [] m.references = <<>> /\ m.inReplyTo # NoId -> m.inReplyTo
    [] OTHER -> IF m.subject # Blank THEN Id(m.subject, "subject")
                ELSE IF m.id # NoId THEN m.id ELSE Id(m.author, "author")

\* The key persistEmailThread gives the thread row; it may be none.
RowKey(m) ==
  IF m.references # <<>> THEN Head(m.references)
  ELSE IF m.inReplyTo # NoId THEN m.inReplyTo ELSE m.id

MbuildReferencesHeader(references, id) ==
  IF id = NoId \/ Contains(references, id) THEN references ELSE <<id>> \o references

buildReferencesHeader(references, id) ==
  IF id = NoId \/ Contains(references, id) THEN references ELSE Append(references, id)

\* A follow-up is sent in the conversation of an e-mail.
Conversation(m) == resolveThreadId(IF m.approvedIn = 0 THEN m ELSE mail[m.approvedIn])

RowOf(conversation) == {r \in rows : r.conversation = conversation}
Latest(conversation) ==
  LET its == {i \in 1..Len(records) : records[i].conversation = conversation}
  IN {records[i] : i \in {j \in its : \A k \in its : k <= j}}

\* Mutants (M...): the definition that follows, with a plausible bug.
MReplyHeaders(m) ==
  LET its == Latest(Conversation(m)) IN
  IF its = {} THEN [references |-> buildReferencesHeader(m.references, m.id), inReplyTo |-> m.id]
  ELSE LET last == CHOOSE r \in its : TRUE
       IN [references |-> buildReferencesHeader(m.references, last.provider),
           inReplyTo |-> last.provider]

\* References and In-Reply-To of what is sent.  For an e-mail without an id, and for a
\* follow-up, they come from the last record of the thread, if there is one.
ReplyHeaders(m) ==
  LET c == Conversation(m) IN
  IF m.id # NoId \/ RowOf(c) = {} \/ Latest(c) = {}
  THEN [references |-> buildReferencesHeader(m.references, m.id), inReplyTo |-> m.id]
  ELSE LET row == CHOOSE r \in RowOf(c) : TRUE
           last == CHOOSE r \in Latest(c) : TRUE
       IN [references |-> buildReferencesHeader(IF row.key = NoId THEN <<>> ELSE <<row.key>>,
                                                last.provider),
           inReplyTo |-> last.provider]

\* The worker names the author of the e-mail, whose address the intake accepted.  A
\* follow-up goes to the author of the thread row: that of the e-mail that created it.
Recipient(m) ==
  LET row == RowOf(Conversation(m)) IN
  IF m.approvedIn = 0 THEN m.author
  ELSE IF row = {} THEN Nobody ELSE (CHOOSE r \in row : TRUE).from

-----------------------------------------------------------------------------
NewJob ==
  [persist |-> "upserting", row |-> NoId, deliver |-> "finding", known |-> FALSE,
   headers |-> [references |-> <<>>, inReplyTo |-> NoId], to |-> 0,
   attempt |-> 0, copies |-> 0, lost |-> 0, status |-> "pending", record |-> "over"]

Init ==
  /\ mail = <<>> /\ rows = {} /\ records = <<>> /\ job = <<>>
  /\ faults = 0

Arrives(m, run) ==
  /\ Len(mail) < MaxMails
  /\ mail' = Append(mail, m)
  /\ job' = Append(job, run)
  /\ UNCHANGED <<rows, records, faults>>

Next1 == Len(mail) + 1

\* An e-mail opens an exchange; some senders give it no Message-ID.  Its turn gives a
\* reply, the row of the outbound message is written, and two things go on at once.
Writes(author, subject, named) ==
  Arrives([author |-> author, subject |-> subject, id |-> IF named THEN Id(Next1, "in") ELSE NoId,
           references |-> <<>>, inReplyTo |-> NoId, parent |-> 0, opener |-> Next1,
           approvedIn |-> 0], NewJob)

ensureReplySubject(subject) == IF subject = Blank THEN NoSubject ELSE subject

\* Whoever got the reply answers it.  Mail programs send both headers; some send only
\* In-Reply-To; some providers strip both.
Answers(e, keeps) ==
  LET j == job[e]  our == Id(e, "out") IN
  /\ j.copies > 0
  /\ Arrives([author |-> j.to, subject |-> ensureReplySubject(mail[e].subject),
              id |-> Id(Next1, "in"),
              references |-> IF keeps = "both" THEN Append(j.headers.references, our) ELSE <<>>,
              inReplyTo |-> IF keeps = "none" THEN NoId ELSE our,
              parent |-> e, opener |-> mail[e].opener, approvedIn |-> 0], NewJob)

\* Whoever got the reply that proposes a follow-up approves it: the message has a row of
\* its own, names neither a recipient nor headers, and is delivered at once.
FollowsUp(e) ==
  /\ job[e].copies > 0 /\ mail[e].approvedIn = 0
  /\ Arrives([author |-> Nobody, subject |-> mail[e].subject, id |-> NoId,
              references |-> <<>>, inReplyTo |-> NoId, parent |-> 0, opener |-> Next1,
              approvedIn |-> e], [NewJob EXCEPT !.persist = "over"])

Becomes(e, j) == job' = [job EXCEPT ![e] = j]

-----------------------------------------------------------------------------
(* persistEmailThread, which nobody waits for.                             *)

\* The row with the key, or without a key that of the conversation, is brought up to
\* date or created; a conversation has no more than one.
Upsert(e) ==
  LET m == mail[e]  key == RowKey(m)  c == resolveThreadId(m)
      there == {r \in rows : IF key # NoId THEN r.key = key ELSE r.conversation = c}
  IN
  /\ e <= MaxRuns /\ job[e].persist = "upserting"
  /\ \/ /\ there # {}
        /\ Becomes(e, [job[e] EXCEPT !.persist = "recording",
                                     !.row = (CHOOSE r \in there : TRUE).conversation])
        /\ UNCHANGED rows /\ NoFault
     \/ /\ there = {} /\ RowOf(c) = {}
        /\ Becomes(e, [job[e] EXCEPT !.persist = "recording", !.row = c])
        /\ rows' = rows \cup {[conversation |-> c, key |-> key, from |-> m.author]} /\ NoFault
     \/ /\ there = {} /\ RowOf(c) # {}
        /\ Becomes(e, [job[e] EXCEPT !.persist = "over", !.row = NoId])
        /\ UNCHANGED rows /\ NoFault
     \/ /\ Becomes(e, [job[e] EXCEPT !.persist = "over", !.row = NoId])
        /\ UNCHANGED rows /\ Fault
  /\ UNCHANGED <<mail, records>>

\* Unique keys: one record per message and per id.
Accepted(r) ==
  \A i \in 1..Len(records) : /\ records[i].message # r.message
                             /\ r.provider # NoId => records[i].provider # r.provider

\* The inbound e-mail is recorded under the id of the outbound message.
CreateInbound(e) ==
  LET r == [conversation |-> job[e].row, message |-> e, provider |-> mail[e].id] IN
  /\ job[e].persist = "recording"
  /\ Becomes(e, [job[e] EXCEPT !.persist = "over", !.row = NoId])
  /\ \/ records' = (IF Accepted(r) THEN Append(records, r) ELSE records) /\ NoFault
     \/ UNCHANGED records /\ Fault
  /\ UNCHANGED <<mail, rows>>

-----------------------------------------------------------------------------
(* deliverToEmail and sendEmail.                                           *)

NoReply(e) ==
  /\ e <= MaxRuns /\ job[e].deliver = "finding" /\ mail[e].approvedIn = 0
  /\ Becomes(e, [job[e] EXCEPT !.deliver = "over"])
  /\ UNCHANGED <<mail, rows, records, faults>>

\* The read is outside the try: when it fails, so does the run.  Without a thread row
\* there is nobody to send a follow-up to.
FindThread(e) ==
  LET m == mail[e] IN
  /\ job[e].deliver = "finding"
  /\ e <= MaxRuns \/ m.approvedIn # 0
  /\ \/ /\ Recipient(m) # Nobody /\ NoFault
        /\ Becomes(e, [job[e] EXCEPT !.deliver = "sending", !.known = RowOf(Conversation(m)) # {},
                                     !.headers = ReplyHeaders(m), !.to = Recipient(m)])
     \/ /\ Recipient(m) = Nobody /\ NoFault
        /\ Becomes(e, [job[e] EXCEPT !.deliver = "failed"])
     \/ Becomes(e, [job[e] EXCEPT !.deliver = "over"]) /\ Fault
  /\ UNCHANGED <<mail, rows, records>>

Sent(e) ==
  /\ job[e].deliver = "sending"
  /\ Becomes(e, [job[e] EXCEPT !.deliver = "sent", !.copies = @ + 1, !.attempt = 0])
  /\ UNCHANGED <<mail, rows, records, faults>>

\* After an error it is sent again, up to MAX_RETRIES times.
MRetry(j) ==
  IF j.attempt < MAX_RETRIES THEN [j EXCEPT !.attempt = @ + 1]
  ELSE [j EXCEPT !.deliver = "sent", !.attempt = 0]

MRetryOnceMore(j) ==
  IF j.attempt <= MAX_RETRIES THEN [j EXCEPT !.attempt = @ + 1]
  ELSE [j EXCEPT !.deliver = "failed", !.attempt = 0]

Retry(j) ==
  IF j.attempt < MAX_RETRIES THEN [j EXCEPT !.attempt = @ + 1]
  ELSE [j EXCEPT !.deliver = "failed", !.attempt = 0]

SendFails(e) ==
  /\ job[e].deliver = "sending"
  /\ Becomes(e, Retry(job[e]))
  /\ UNCHANGED <<mail, rows, records, faults>>

\* The e-mail went out, but the answer did not come back.
AnswerLost(e) ==
  /\ job[e].deliver = "sending" /\ Fault
  /\ Becomes(e, Retry([job[e] EXCEPT !.copies = @ + 1, !.lost = @ + 1]))
  /\ UNCHANGED <<mail, rows, records>>

\* By SMTP, some errors are final.
Refused(e) ==
  /\ job[e].deliver = "sending" /\ Transport = "smtp"
  /\ Becomes(e, [job[e] EXCEPT !.deliver = "failed", !.attempt = 0])
  /\ UNCHANGED <<mail, rows, records, faults>>

\* The status of the outbound message: a read and a write, neither of which may fail
\* the delivery.  Then the reply is recorded if the thread was known.
UpdateMessageStatus(e) ==
  LET j == job[e]  next == [j EXCEPT !.deliver = "over", !.known = FALSE,
                                     !.record = IF j.deliver = "sent" /\ j.known
                                                 THEN "writing" ELSE @]
  IN
  /\ j.deliver \in {"sent", "failed"}
  /\ \/ Becomes(e, [next EXCEPT !.status = j.deliver]) /\ NoFault
     \/ Becomes(e, next) /\ Fault
  /\ UNCHANGED <<mail, rows, records>>

\* Nobody waits for the record either.  Its id is the Message-ID by SMTP, and an id of
\* its own by Resend.  The time of the thread's last message is written beside it.
CreateOutbound(e) ==
  LET r == [conversation |-> Conversation(mail[e]), message |-> e,
            provider |-> Id(e, IF Transport = "smtp" THEN "out" ELSE "api")] IN
  /\ job[e].record = "writing"
  /\ \/ /\ Accepted(r) /\ NoFault
        /\ records' = Append(records, r)
        /\ Becomes(e, [job[e] EXCEPT !.record = "over"])
     \/ /\ ~Accepted(r) /\ NoFault
        /\ UNCHANGED records
        /\ Becomes(e, [job[e] EXCEPT !.record = "refused"])
     \/ /\ UNCHANGED records /\ Fault
        /\ Becomes(e, [job[e] EXCEPT !.record = "over"])
  /\ UNCHANGED <<mail, rows>>

Next ==
  \/ \E o \in Openings : Writes(o[1], o[2], o[3])
  \/ \E e \in Mails :
       \/ \E keeps \in {"both", "reply", "none"} : Answers(e, keeps)
       \/ FollowsUp(e)
       \/ Upsert(e) \/ CreateInbound(e)
       \/ NoReply(e) \/ FindThread(e)
       \/ Sent(e) \/ SendFails(e) \/ AnswerLost(e) \/ Refused(e)
       \/ UpdateMessageStatus(e) \/ CreateOutbound(e)

Spec == Init /\ [][Next]_vars

-----------------------------------------------------------------------------
(* Correctness.                                                            *)

Ids == {NoId} \cup ((1..MaxMails) \X {"in", "out", "api"})
People == Authors \cup {Nobody}
Conversations == Ids \cup (Subjects \X {"subject"}) \cup (People \X {"author"})

References == Seq(Ids \ {NoId})

Mail == [author : People, subject : Subjects, id : Ids, references : References,
         inReplyTo : Ids, parent : Nat, opener : Nat, approvedIn : Nat]
Row == [conversation : Conversations, key : Ids, from : People]
Record == [conversation : Conversations, message : Nat, provider : Ids]
Job == [persist : {"upserting", "recording", "over"}, row : Conversations,
        deliver : {"finding", "sending", "sent", "failed", "over"}, known : BOOLEAN,
        headers : [references : References, inReplyTo : Ids], to : People,
        attempt : 0..MAX_RETRIES, copies : Nat, lost : Nat,
        status : {"pending", "sent", "failed"}, record : {"over", "writing", "refused"}]

TypeOK ==
  /\ mail \in Seq(Mail) /\ Len(mail) <= MaxMails
  /\ \A e \in Mails : mail[e].parent < e /\ mail[e].approvedIn < e /\ mail[e].opener \in 1..e
  /\ rows \subseteq Row /\ records \in Seq(Record)
  /\ job \in Seq(Job) /\ Len(job) = Len(mail)
  /\ faults \in 0..MaxFaults

\* Replies with proper threading: an e-mail that answers a reply is in the conversation
\* of the e-mail the reply was to, however often the two sides go on, provided that
\* both come with their References, or both without headers and with a subject.
ExchangeStaysTogether == \A f \in Mails :
  mail[f].parent # 0 /\ mail[mail[f].parent].approvedIn = 0 =>
  LET m == mail[f]  p == mail[m.parent]
      bare(x) == x.references = <<>> /\ x.inReplyTo = NoId /\ x.subject # Blank
  IN (m.references # <<>> /\ p.references # <<>>) \/ (bare(m) /\ bare(p))
       => resolveThreadId(m) = resolveThreadId(p)

\* What is sent stays among its own, although e-mails of several authors share a
\* conversation, its thread row and its last record when they have the same subject: it
\* goes to somebody who wrote in that conversation, and in an exchange whose first
\* e-mail had a Message-ID, the headers of a reply name e-mails of that exchange only.
StaysAmongItsOwn == \A e \in Mails : job[e].copies > 0 =>
  LET m == mail[e]  h == job[e].headers IN
  /\ \E f \in Mails : /\ mail[f].approvedIn = 0 /\ mail[f].author = job[e].to
                     /\ resolveThreadId(mail[f]) = Conversation(m)
  /\ mail[m.opener].id # NoId =>
       \A id \in {h.inReplyTo} \cup Range(h.references) :
         id[1] \in Mails /\ mail[id[1]].opener = m.opener

\* The status of the outbound message is true: "sent" of a reply that the provider
\* confirmed, "failed" of one it never confirmed; and however the sending is retried,
\* the author gets one copy of a confirmed reply and one more per lost answer.
StatusIsTrue == \A e \in Mails : LET j == job[e] IN
  /\ j.status = "sent" => j.copies = j.lost + 1
  /\ j.status = "failed" \/ j.deliver = "sending" => j.copies = j.lost
  /\ j.copies <= MAX_RETRIES + 1

\* Step 4 of deliverToEmail: unless a statement failed, a reply that was sent in a known
\* thread is recorded.
ReplyIsRecorded == faults = 0 => \A e \in Mails : job[e].record # "refused"
=============================================================================
