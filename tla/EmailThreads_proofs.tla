------------------------- MODULE EmailThreads_proofs -------------------------
(***************************************************************************)
(* Machine-checked proofs about EmailThreads, for any authors, subjects,   *)
(* openings, transport, and any number of e-mails, runs and faults.        *)
(***************************************************************************)
EXTENDS EmailThreads, SequenceTheorems, TLAPS

USE EmailThreadsAssumption DEF EmailThreadsAssumption

\* A delivery, by its stage: how many copies went out, what is said of them, and where
\* they go.  The headers stay in the exchange of the e-mail.
Counted(j) ==
  /\ j.deliver = "finding" => j.copies = 0 /\ j.lost = 0 /\ j.attempt = 0 /\ j.status = "pending"
  /\ j.deliver = "sending" => j.copies = j.lost /\ j.lost <= j.attempt /\ j.status = "pending"
  /\ j.deliver = "sent" => j.copies = j.lost + 1 /\ j.status = "pending"
  /\ j.deliver = "failed" => j.copies = j.lost /\ j.status = "pending"
  /\ j.status = "sent" => j.copies = j.lost + 1
  /\ j.status = "failed" => j.copies = j.lost
  /\ j.copies <= MAX_RETRIES + 1

\* Somebody's e-mail is in a conversation.
Wrote(ms, a, c) == \E f \in 1..Len(ms) : ms[f].author = a /\ resolveThreadId(ms[f]) = c

ConversationIn(ms, m) == resolveThreadId(IF m.approvedIn = 0 THEN m ELSE ms[m.approvedIn])

\* Ids are of e-mails of the exchange that o opened with a Message-ID.
Within(ms, o, ids) ==
  ms[o].id # NoId => \A id \in ids : id[1] \in 1..Len(ms) /\ ms[id[1]].opener = o

Heads(m, refs) == m.references # <<>> => refs # <<>> /\ Head(refs) = Head(m.references)

Addressed(ms, e, j) ==
  (j.deliver \in {"sending", "sent"} \/ j.copies > 0) =>
    /\ Heads(ms[e], j.headers.references)
    /\ j.to # Nobody /\ Wrote(ms, j.to, ConversationIn(ms, ms[e]))
    /\ Within(ms, ms[e].opener, {j.headers.inReplyTo} \cup Range(j.headers.references))

\* E-mails with References have an id; what comes with an exchange that has an id names
\* e-mails of it; a follow-up is nobody's e-mail.  An answer to a reply has its subject,
\* and References that go back to the same e-mail.
Mentioned(m) == ({m.inReplyTo} \ {NoId}) \cup Range(m.references)

Arrived(ms, f) ==
  LET m == ms[f] IN
  /\ m.references # <<>> => m.id # NoId
  /\ m.approvedIn # 0 => m.author = Nobody /\ m.id = NoId /\ m.opener = f
  /\ ms[m.opener].id # NoId => m.id = Id(f, "in")
  /\ Within(ms, m.opener, Mentioned(m))
  /\ m.parent # 0 /\ ms[m.parent].approvedIn = 0 =>
       LET p == ms[m.parent] IN
       /\ m.subject = ensureReplySubject(p.subject)
       /\ m.references # <<>> /\ p.references # <<>> => Head(m.references) = Head(p.references)

Exchange == \A f \in Mails : Arrived(mail, f)

\* A thread row names somebody who wrote in its conversation.
RowsNamed == \A r \in rows : Wrote(mail, r.from, r.conversation)

IndInv == /\ TypeOK /\ Exchange /\ RowsNamed
          /\ \A e \in Mails : Counted(job[e]) /\ Addressed(mail, e, job[e])

-----------------------------------------------------------------------------
(* Headers.                                                                *)

\* No Message-ID is an id like any other, but never the one of a record.
LEMMA NoIdTyped == NoId \in Ids /\ \A e, k : k # "none" => Id(e, k) # NoId
BY DEF NoId, Ids, Id

\* The first of the References is a Message-ID.
LEMMA HeadOfReferences ==
  ASSUME NEW r \in References, r # <<>>
  PROVE  Head(r) \in Ids \ {NoId}
BY HeadTailProperties DEF References

\* The key of a conversation is one.
LEMMA ConversationTyped ==
  ASSUME NEW m \in Mail
  PROVE  resolveThreadId(m) \in Conversations /\ RowKey(m) \in Ids
<1>1. /\ m.references \in References /\ m.id \in Ids /\ m.inReplyTo \in Ids
      /\ m.subject \in Subjects /\ m.author \in People
  BY DEF Mail
<1>2. m.references # <<>> => Head(m.references) \in Ids
  BY <1>1, HeadOfReferences
<1>3. Id(m.subject, "subject") \in Conversations /\ Id(m.author, "author") \in Conversations
  BY <1>1 DEF Id, Conversations
<1> QED
  BY <1>1, <1>2, <1>3 DEF resolveThreadId, RowKey, Conversations

\* So is that of a follow-up, which is the one it was approved in.
LEMMA ConversationFound ==
  ASSUME TypeOK, NEW e \in Mails
  PROVE  /\ Conversation(mail[e]) \in Conversations
         /\ Conversation(mail[e]) = ConversationIn(mail, mail[e])
<1>1. mail[e] \in Mail /\ mail[e].approvedIn < e /\ mail \in Seq(Mail) /\ e \in 1..Len(mail)
  BY ElementOfSeq DEF TypeOK, Mails
<1>2. mail[e].approvedIn # 0 => mail[mail[e].approvedIn] \in Mail
  <2>1. mail[e].approvedIn # 0 => mail[e].approvedIn \in 1..Len(mail)
    BY <1>1, LenProperties DEF Mail
  <2> QED
    BY <1>1, <2>1, ElementOfSeq
<1> QED
  BY <1>1, <1>2, ConversationTyped DEF Conversation, ConversationIn

\* The References of a reply begin where those of the e-mail began.
LEMMA ReferencesBuilt ==
  ASSUME NEW r \in References, NEW id \in Ids
  PROVE  /\ buildReferencesHeader(r, id) \in References
         /\ r # <<>> => buildReferencesHeader(r, id) # <<>> /\ Head(buildReferencesHeader(r, id)) = Head(r)
         /\ Range(buildReferencesHeader(r, id)) \subseteq Range(r) \cup {id}
<1>1. CASE buildReferencesHeader(r, id) = r
  BY <1>1
<1>2. CASE id # NoId /\ buildReferencesHeader(r, id) = Append(r, id)
  <2>1. /\ Append(r, id) \in References /\ Len(Append(r, id)) = Len(r) + 1 /\ Len(r) \in Nat
        /\ \A i \in 1..Len(r) : Append(r, id)[i] = r[i]
    BY <1>2, AppendProperties, LenProperties DEF References
  <2>2. Append(r, id) # <<>>
    BY <2>1
  <2>3. ASSUME r # <<>> PROVE Head(Append(r, id)) = Head(r)
    <3>1. Len(r) # 0
      BY <2>3, EmptySeq DEF References
    <3>2. Append(r, id)[1] = r[1]
      BY <2>1, <3>1
    <3> QED
      BY <3>2 DEF References
  <2>4. Range(Append(r, id)) \subseteq Range(r) \cup {id}
    BY <1>2, AppendProperties DEF References, Range
  <2> QED
    BY <1>2, <2>1, <2>2, <2>3, <2>4
<1> QED
  BY <1>1, <1>2 DEF buildReferencesHeader

\* What a reply takes over from the headers of its e-mail.
LEMMA HeadersTyped ==
  ASSUME TypeOK, NEW m \in Mail
  PROVE  /\ ReplyHeaders(m) \in [references : References, inReplyTo : Ids]
         /\ m.id # NoId => /\ ReplyHeaders(m).references = buildReferencesHeader(m.references, m.id)
                           /\ ReplyHeaders(m).inReplyTo = m.id
<1>1. m.references \in References /\ m.id \in Ids
  BY DEF Mail
<1>2. CASE m.id # NoId \/ RowOf(Conversation(m)) = {} \/ Latest(Conversation(m)) = {}
  BY <1>1, <1>2, ReferencesBuilt DEF ReplyHeaders
<1>3. CASE ~(m.id # NoId \/ RowOf(Conversation(m)) = {} \/ Latest(Conversation(m)) = {})
  <2> DEFINE c == Conversation(m)
             row == CHOOSE r \in RowOf(c) : TRUE
             last == CHOOSE r \in Latest(c) : TRUE
             refs == IF row.key = NoId THEN <<>> ELSE <<row.key>>
  <2>1. row \in Row
    BY <1>3 DEF RowOf, TypeOK
  <2>2. last \in Latest(c)
    BY <1>3
  <2>6. ReplyHeaders(m) = [references |-> buildReferencesHeader(refs, last.provider),
                           inReplyTo |-> last.provider]
    BY <1>3 DEF ReplyHeaders
  <2> HIDE DEF last, row
  <2>3. last \in Record
    <3>1. records \in Seq(Record)
      BY DEF TypeOK
    <3>2. PICK i \in 1..Len(records) : last = records[i]
      BY <2>2 DEF Latest
    <3> QED
      BY <3>1, <3>2, ElementOfSeq
  <2>4. row.key \in Ids /\ last.provider \in Ids
    BY <2>1, <2>3 DEF Row, Record
  <2>5. refs \in References
    <3>1. <<>> \in References
      BY EmptySeq DEF References
    <3>2. row.key # NoId => <<row.key>> \in References
      BY <2>4 DEF References
    <3> QED
      BY <3>1, <3>2
  <2> HIDE DEF refs
  <2> QED
    BY <1>3, <2>4, <2>5, <2>6, ReferencesBuilt
<1> QED
  BY <1>2, <1>3

-----------------------------------------------------------------------------
(* The steps of a run.                                                     *)

\* A run stays as it should be.
Sound(e) == \E j \in Job : Becomes(e, j) /\ Counted(j) /\ Addressed(mail, e, j)

\* What the invariant says of one run.
LEMMA RunAt ==
  ASSUME IndInv, NEW e \in Mails
  PROVE  /\ job[e] \in Job /\ mail[e] \in Mail
         /\ Counted(job[e]) /\ Addressed(mail, e, job[e])
         /\ job[e].attempt \in Nat /\ job[e].copies \in Nat /\ job[e].lost \in Nat
<1>1. job[e] \in Job /\ mail[e] \in Mail
  BY ElementOfSeq, LenProperties DEF IndInv, TypeOK, Mails
<1> QED
  BY <1>1 DEF IndInv, Job, MAX_RETRIES

\* The thread row and the records do not touch the delivery.
LEMMA PersistIsSound ==
  ASSUME IndInv, NEW e \in Mails, NEW p \in {"upserting", "recording", "over"}, NEW c \in Conversations,
         Becomes(e, [job[e] EXCEPT !.persist = p, !.row = c])
  PROVE  Sound(e)
<1> DEFINE j == [job[e] EXCEPT !.persist = p, !.row = c]
<1>1. j \in Job
  BY RunAt DEF Job
<1>2. Counted(j) /\ Addressed(mail, e, j)
  BY RunAt DEF Job, Counted, Addressed
<1> HIDE DEF j
<1> QED
  BY <1>1, <1>2 DEF Sound, j

\* The writes that record the thread of an e-mail leave its run sound.
LEMMA UpsertIsSound ==
  ASSUME IndInv, NEW e \in Mails, Upsert(e) \/ CreateInbound(e)
  PROVE  Sound(e)
<1>1. NoId \in Conversations /\ resolveThreadId(mail[e]) \in Conversations
  BY NoIdTyped, ConversationTyped, RunAt DEF Conversations
<1>2. ASSUME NEW r \in rows PROVE r.conversation \in Conversations
  BY <1>2 DEF IndInv, TypeOK, Row
<1>3. CASE CreateInbound(e)
  BY <1>1, <1>3, PersistIsSound DEF CreateInbound
<1>4. CASE Upsert(e)
  <2> DEFINE key == RowKey(mail[e])
             there == {r \in rows : IF key # NoId THEN r.key = key
                                    ELSE r.conversation = resolveThreadId(mail[e])}
  <2>1. \/ there # {} /\ Becomes(e, [job[e] EXCEPT !.persist = "recording",
                                        !.row = (CHOOSE r \in there : TRUE).conversation])
        \/ Becomes(e, [job[e] EXCEPT !.persist = "recording", !.row = resolveThreadId(mail[e])])
        \/ Becomes(e, [job[e] EXCEPT !.persist = "over", !.row = NoId])
    BY <1>4 DEF Upsert
  <2>2. there # {} => (CHOOSE r \in there : TRUE) \in rows
    OBVIOUS
  <2> HIDE DEF there
  <2> QED
    BY <1>1, <1>2, <2>1, <2>2, PersistIsSound
<1> QED
  BY <1>3, <1>4

\* What a reply takes over from the e-mail it answers.
LEMMA ReplyTakes ==
  ASSUME IndInv, NEW e \in Mails
  PROVE  /\ Heads(mail[e], ReplyHeaders(mail[e]).references)
         /\ Within(mail, mail[e].opener,
                   {ReplyHeaders(mail[e]).inReplyTo} \cup Range(ReplyHeaders(mail[e]).references))
<1> DEFINE m == mail[e]  h == ReplyHeaders(m)
<1>1. m \in Mail /\ m.references \in References /\ m.id \in Ids /\ Arrived(mail, e) /\ TypeOK
  BY RunAt DEF Mail, IndInv, Exchange
<1>2. m.references # <<>> => m.id # NoId
  BY <1>1 DEF Arrived
<1>3. m.id # NoId => /\ h.references = buildReferencesHeader(m.references, m.id)
                     /\ h.inReplyTo = m.id
  BY <1>1, HeadersTyped
<1>4. Heads(m, h.references)
  BY <1>1, <1>2, <1>3, ReferencesBuilt DEF Heads
<1>5. ASSUME mail[m.opener].id # NoId, NEW id \in {h.inReplyTo} \cup Range(h.references)
      PROVE  id[1] \in 1..Len(mail) /\ mail[id[1]].opener = m.opener
  <2>1. m.id = Id(e, "in") /\ m.id # NoId
    BY <1>1, <1>5, NoIdTyped DEF Arrived
  <2>2. id = m.id \/ id \in Range(m.references)
    BY <1>1, <1>3, <1>5, <2>1, ReferencesBuilt
  <2>3. CASE id = m.id
    BY <2>1, <2>3 DEF Id, Mails
  <2>4. CASE id \in Range(m.references)
    BY <1>1, <1>5, <2>4 DEF Arrived, Within, Mentioned
  <2> QED
    BY <2>2, <2>3, <2>4
<1> QED
  BY <1>4, <1>5 DEF Within

\* To whom it goes: somebody of the conversation.
LEMMA RecipientWrote ==
  ASSUME IndInv, NEW e \in Mails, Recipient(mail[e]) # Nobody
  PROVE  /\ Recipient(mail[e]) \in People
         /\ Wrote(mail, Recipient(mail[e]), ConversationIn(mail, mail[e]))
<1> DEFINE m == mail[e]
<1>1. m \in Mail /\ m.author \in People /\ rows \subseteq Row /\ TypeOK /\ RowsNamed
  BY RunAt DEF Mail, IndInv, TypeOK
<1>2. CASE m.approvedIn = 0
  BY <1>1, <1>2 DEF Recipient, Wrote, ConversationIn, Mails
<1>3. CASE m.approvedIn # 0
  <2>1. RowOf(Conversation(m)) # {}
    BY <1>3 DEF Recipient
  <2> DEFINE r == CHOOSE x \in RowOf(Conversation(m)) : TRUE
  <2>2. r \in RowOf(Conversation(m)) /\ Recipient(m) = r.from
    BY <1>3, <2>1 DEF Recipient
  <2> HIDE DEF r
  <2>3. r \in rows /\ r.conversation = ConversationIn(mail, m)
    BY <1>1, <2>2, ConversationFound DEF RowOf
  <2> QED
    BY <1>1, <2>2, <2>3 DEF Row, RowsNamed
<1> QED
  BY <1>2, <1>3

\* So do the look-up of the thread and a turn without a reply.
LEMMA FindIsSound ==
  ASSUME IndInv, NEW e \in Mails, FindThread(e) \/ NoReply(e)
  PROVE  Sound(e)
<1> DEFINE m == mail[e]
           known == RowOf(Conversation(m)) # {}
           j == [job[e] EXCEPT !.deliver = "sending", !.known = known,
                               !.headers = ReplyHeaders(m), !.to = Recipient(m)]
           i == [job[e] EXCEPT !.deliver = "over"]
           k == [job[e] EXCEPT !.deliver = "failed"]
<1>1. m \in Mail /\ job[e] \in Job /\ Counted(job[e]) /\ job[e].deliver = "finding" /\ job[e].copies = 0
  BY RunAt DEF FindThread, NoReply, Counted
<1>2. /\ ReplyHeaders(m) \in [references : References, inReplyTo : Ids]
      /\ Heads(m, ReplyHeaders(m).references)
      /\ Within(mail, m.opener, {ReplyHeaders(m).inReplyTo} \cup Range(ReplyHeaders(m).references))
  BY <1>1, HeadersTyped, ReplyTakes DEF IndInv
<1>3. known \in BOOLEAN
  OBVIOUS
<1>4. \/ Becomes(e, j) /\ Recipient(m) # Nobody
      \/ Becomes(e, k)
      \/ Becomes(e, i)
  BY DEF FindThread, NoReply
<1>5. i \in Job /\ Counted(i) /\ Addressed(mail, e, i)
  BY <1>1 DEF Job, Counted, Addressed
<1>6. k \in Job /\ Counted(k) /\ Addressed(mail, e, k)
  BY <1>1 DEF Job, Counted, Addressed
<1> HIDE DEF known
<1>7. ASSUME Recipient(m) # Nobody PROVE j \in Job /\ Counted(j) /\ Addressed(mail, e, j)
  <2>1. Recipient(m) \in People /\ Wrote(mail, Recipient(m), ConversationIn(mail, m))
    BY <1>7, RecipientWrote
  <2>2. j \in Job
    BY <1>1, <1>2, <1>3, <2>1 DEF Job
  <2>3. /\ j.deliver = "sending" /\ j.copies = job[e].copies /\ j.lost = job[e].lost
        /\ j.attempt = job[e].attempt /\ j.status = job[e].status
        /\ j.headers = ReplyHeaders(m) /\ j.to = Recipient(m)
    BY <1>1, <1>3 DEF Job
  <2> HIDE DEF j
  <2> QED
    BY <1>1, <1>2, <1>7, <2>1, <2>2, <2>3 DEF Counted, Addressed, MAX_RETRIES
<1> HIDE DEF j, i, k
<1> QED
  BY <1>4, <1>5, <1>6, <1>7 DEF Sound

\* Retries.
LEMMA Attempts == 0 \in 0..MAX_RETRIES /\ MAX_RETRIES = 2
BY DEF MAX_RETRIES

\* Sending ends with a result and a fresh counter.
Ended(k, c, d) == [k EXCEPT !.deliver = d, !.copies = c, !.attempt = 0]

\* The record of a run whose sending has ended.
LEMMA EndOfSending ==
  ASSUME NEW k \in Job, NEW c \in Nat, NEW d \in {"sent", "failed"}
  PROVE  /\ Ended(k, c, d) \in Job
         /\ Ended(k, c, d).copies = c /\ Ended(k, c, d).lost = k.lost
         /\ Ended(k, c, d).status = k.status /\ Ended(k, c, d).deliver = d
         /\ Ended(k, c, d).headers = k.headers /\ Ended(k, c, d).to = k.to
BY Attempts DEF Job, Ended

\* A lost attempt, repeated or given up, is counted.
LEMMA RetryIsSound ==
  ASSUME NEW e \in Mails, NEW k \in Job, k.deliver = "sending", k.status = "pending",
         k.copies = k.lost, k.lost <= k.attempt + 1, Addressed(mail, e, k), Becomes(e, Retry(k))
  PROVE  Sound(e)
<1>1. /\ k.attempt \in Nat /\ k.attempt <= MAX_RETRIES /\ k.copies \in Nat /\ k.lost \in Nat
  BY Attempts DEF Job
<1>2. CASE k.attempt < MAX_RETRIES
  <2> DEFINE j == [k EXCEPT !.attempt = k.attempt + 1]
  <2>1. Retry(k) = j
    BY <1>2 DEF Retry
  <2>2. k.attempt + 1 \in 0..MAX_RETRIES
    BY <1>1, <1>2, Attempts
  <2>3. /\ j \in Job /\ j.copies = k.copies /\ j.lost = k.lost /\ j.attempt = k.attempt + 1
        /\ j.deliver = "sending" /\ j.status = "pending" /\ j.headers = k.headers /\ j.to = k.to
    BY <2>2 DEF Job
  <2> HIDE DEF j
  <2>4. Counted(j) /\ Addressed(mail, e, j)
    BY <1>1, <1>2, <2>3, Attempts DEF Counted, Addressed
  <2> QED
    BY <2>1, <2>3, <2>4 DEF Sound
<1>3. CASE ~(k.attempt < MAX_RETRIES)
  <2> DEFINE j == [k EXCEPT !.deliver = "failed", !.attempt = 0]
  <2>1. Retry(k) = j
    BY <1>3 DEF Retry
  <2>2. j \in Job
    BY Attempts DEF Job
  <2>3. /\ j.copies = k.copies /\ j.lost = k.lost /\ j.deliver = "failed"
        /\ j.status = "pending" /\ j.headers = k.headers /\ j.to = k.to
    BY DEF Job
  <2> HIDE DEF j
  <2>4. Counted(j) /\ Addressed(mail, e, j)
    BY <1>1, <2>3, Attempts DEF Counted, Addressed
  <2> QED
    BY <2>1, <2>2, <2>4 DEF Sound
<1> QED
  BY <1>2, <1>3

\* However an attempt to send ends, its run is sound.
LEMMA SendIsSound ==
  ASSUME IndInv, NEW e \in Mails, Sent(e) \/ SendFails(e) \/ AnswerLost(e) \/ Refused(e)
  PROVE  Sound(e)
<1>1. /\ job[e] \in Job /\ Counted(job[e]) /\ Addressed(mail, e, job[e])
      /\ job[e].attempt \in 0..MAX_RETRIES /\ job[e].copies \in Nat /\ job[e].lost \in Nat
      /\ job[e].deliver = "sending"
  BY RunAt DEF Job, Sent, SendFails, AnswerLost, Refused
<1>2. /\ job[e].status = "pending" /\ job[e].copies = job[e].lost
      /\ job[e].lost <= job[e].attempt /\ job[e].attempt <= MAX_RETRIES
  BY <1>1, Attempts DEF Counted
<1>3. CASE Sent(e)
  <2> DEFINE j == [job[e] EXCEPT !.deliver = "sent", !.copies = job[e].copies + 1, !.attempt = 0]
  <2>1. Becomes(e, j)
    BY <1>3 DEF Sent
  <2>2. /\ j \in Job /\ j.copies = job[e].copies + 1 /\ j.lost = job[e].lost
        /\ j.status = "pending" /\ j.deliver = "sent"
        /\ j.headers = job[e].headers /\ j.to = job[e].to
    <3>1. job[e].copies + 1 \in Nat
      BY <1>1
    <3>2. j = Ended(job[e], job[e].copies + 1, "sent")
      BY DEF Ended
    <3> HIDE DEF j
    <3> DEFINE c == job[e].copies + 1
    <3>3. c \in Nat /\ j = Ended(job[e], c, "sent")
      BY <3>1, <3>2
    <3> HIDE DEF c
    <3>4. /\ j \in Job /\ j.copies = c /\ j.lost = job[e].lost /\ j.status = job[e].status
          /\ j.deliver = "sent" /\ j.headers = job[e].headers /\ j.to = job[e].to
      <4> DEFINE k == job[e]
      <4>1. k \in Job /\ c \in Nat
        BY <1>1, <3>3
      <4> HIDE DEF k
      <4>2. /\ Ended(k, c, "sent") \in Job
            /\ Ended(k, c, "sent").copies = c /\ Ended(k, c, "sent").lost = k.lost
            /\ Ended(k, c, "sent").status = k.status /\ Ended(k, c, "sent").deliver = "sent"
            /\ Ended(k, c, "sent").headers = k.headers /\ Ended(k, c, "sent").to = k.to
        BY <4>1, EndOfSending
      <4> QED
        BY <3>3, <4>2 DEF k
    <3> QED
      BY <1>2, <3>4 DEF c
  <2> HIDE DEF j
  <2>3. Counted(j) /\ Addressed(mail, e, j)
    BY <1>1, <1>2, <2>2, Attempts DEF Counted, Addressed
  <2> QED
    BY <2>1, <2>2, <2>3 DEF Sound
<1>4. CASE SendFails(e)
  <2>1. Becomes(e, Retry(job[e]))
    BY <1>4 DEF SendFails
  <2>2. job[e].lost <= job[e].attempt + 1
    BY <1>1, <1>2
  <2> QED
    BY <1>1, <1>2, <2>1, <2>2, RetryIsSound
<1>5. CASE AnswerLost(e)
  <2> DEFINE k == [job[e] EXCEPT !.copies = job[e].copies + 1, !.lost = job[e].lost + 1]
  <2>1. Becomes(e, Retry(k))
    BY <1>5 DEF AnswerLost
  <2>2. job[e].copies + 1 \in Nat /\ job[e].lost + 1 \in Nat
    BY <1>1
  <2>3. /\ k \in Job /\ k.copies = job[e].copies + 1 /\ k.lost = job[e].lost + 1
        /\ k.attempt = job[e].attempt /\ k.deliver = job[e].deliver /\ k.status = job[e].status
        /\ k.headers = job[e].headers /\ k.to = job[e].to
    BY <1>1, <2>2 DEF Job
  <2> HIDE DEF k
  <2>4. k.lost <= k.attempt + 1 /\ k.copies = k.lost
    BY <1>1, <1>2, <2>3
  <2>5. Addressed(mail, e, k)
    BY <1>1, <2>3 DEF Addressed
  <2> QED
    BY <1>1, <1>2, <2>1, <2>3, <2>4, <2>5, RetryIsSound
<1>6. CASE Refused(e)
  <2> DEFINE j == [job[e] EXCEPT !.deliver = "failed", !.attempt = 0]
  <2>1. Becomes(e, j)
    BY <1>6 DEF Refused
  <2>2. j \in Job
    BY <1>1, Attempts DEF Job
  <2>3. /\ j.copies = job[e].copies /\ j.lost = job[e].lost
        /\ j.status = "pending" /\ j.deliver = "failed"
        /\ j.headers = job[e].headers /\ j.to = job[e].to
    BY <1>1, <1>2 DEF Job
  <2> HIDE DEF j
  <2>4. Counted(j) /\ Addressed(mail, e, j)
    BY <1>1, <1>2, <2>3, Attempts DEF Counted, Addressed
  <2> QED
    BY <2>1, <2>2, <2>4 DEF Sound
<1> QED
  BY <1>3, <1>4, <1>5, <1>6

\* The status, and the record of the reply.
LEMMA StatusIsSound ==
  ASSUME IndInv, NEW e \in Mails, UpdateMessageStatus(e) \/ CreateOutbound(e)
  PROVE  Sound(e)
<1>1. job[e] \in Job /\ Counted(job[e]) /\ Addressed(mail, e, job[e])
  BY RunAt
<1>2. CASE CreateOutbound(e)
  <2>1. PICK r \in {"over", "refused"} : Becomes(e, [job[e] EXCEPT !.record = r])
    BY <1>2 DEF CreateOutbound
  <2> DEFINE j == [job[e] EXCEPT !.record = r]
  <2>2. j \in Job
    BY <1>1 DEF Job
  <2>3. Counted(j) /\ Addressed(mail, e, j)
    BY <1>1 DEF Job, Counted, Addressed
  <2> HIDE DEF j
  <2> QED
    BY <2>1, <2>2, <2>3 DEF Sound, j
<1>3. CASE UpdateMessageStatus(e)
  <2> DEFINE r == IF job[e].deliver = "sent" /\ job[e].known THEN "writing" ELSE job[e].record
             n == [job[e] EXCEPT !.deliver = "over", !.known = FALSE, !.record = r]
  <2>0. r \in {"over", "writing", "refused"}
    BY <1>1 DEF Job
  <2>1. /\ job[e].deliver \in {"sent", "failed"}
        /\ Becomes(e, [n EXCEPT !.status = job[e].deliver]) \/ Becomes(e, n)
    BY <1>3 DEF UpdateMessageStatus
  <2> HIDE DEF r
  <2>2. /\ n \in Job /\ n.copies = job[e].copies /\ n.lost = job[e].lost /\ n.deliver = "over"
        /\ n.headers = job[e].headers /\ n.to = job[e].to /\ n.status = job[e].status
    BY <1>1, <2>0 DEF Job
  <2> HIDE DEF n
  <2>3. Counted(n) /\ Addressed(mail, e, n)
    BY <1>1, <2>1, <2>2 DEF Counted, Addressed
  <2> DEFINE j == [n EXCEPT !.status = job[e].deliver]
  <2>4. /\ j \in Job /\ j.copies = n.copies /\ j.lost = n.lost /\ j.deliver = "over"
        /\ j.headers = n.headers /\ j.to = n.to /\ j.status = job[e].deliver
    BY <2>1, <2>2 DEF Job
  <2> HIDE DEF j
  <2>5. Counted(j) /\ Addressed(mail, e, j)
    BY <1>1, <2>1, <2>2, <2>4 DEF Counted, Addressed
  <2> QED
    BY <2>1, <2>2, <2>3, <2>4, <2>5 DEF Sound, j
<1> QED
  BY <1>2, <1>3

-----------------------------------------------------------------------------
(* Invariance.                                                             *)

\* One step of a run leaves the others alone.
LEMMA SoundKeepsJobs ==
  ASSUME IndInv, NEW e \in Mails, Sound(e), UNCHANGED mail
  PROVE  /\ job' \in Seq(Job) /\ Len(job') = Len(mail)
         /\ \A f \in Mails : Counted(job'[f]) /\ Addressed(mail, f, job'[f])
<1>1. PICK j \in Job : Becomes(e, j) /\ Counted(j) /\ Addressed(mail, e, j)
  BY DEF Sound
<1>2. job \in Seq(Job) /\ Len(job) = Len(mail) /\ e \in 1..Len(job)
  BY DEF IndInv, TypeOK, Mails
<1>3. job' \in Seq(Job) /\ Len(job') = Len(mail)
  BY <1>1, <1>2, ExceptSeq DEF Becomes
<1>4. \A f \in 1..Len(job) : job'[f] = IF f = e THEN j ELSE job[f]
  BY <1>1, <1>2, ExceptSeq DEF Becomes
<1> QED
  BY <1>1, <1>2, <1>3, <1>4 DEF IndInv, Mails

\* The steps of the runs of e-mails.
Runs(e) == \/ Upsert(e) \/ CreateInbound(e) \/ NoReply(e) \/ FindThread(e)
           \/ Sent(e) \/ SendFails(e) \/ AnswerLost(e) \/ Refused(e)
           \/ UpdateMessageStatus(e) \/ CreateOutbound(e)

\* So it is after every step of a run, which leaves the mail that arrived alone.
LEMMA RunsSoundly ==
  ASSUME IndInv, NEW e \in Mails, Runs(e)
  PROVE  Sound(e) /\ UNCHANGED mail
<1>1. CASE Upsert(e) \/ CreateInbound(e)
  BY <1>1, UpsertIsSound DEF Upsert, CreateInbound
<1>2. CASE NoReply(e) \/ FindThread(e)
  BY <1>2, FindIsSound DEF NoReply, FindThread
<1>3. CASE Sent(e) \/ SendFails(e) \/ AnswerLost(e) \/ Refused(e)
  BY <1>3, SendIsSound DEF Sent, SendFails, AnswerLost, Refused
<1>4. CASE UpdateMessageStatus(e) \/ CreateOutbound(e)
  BY <1>4, StatusIsSound DEF UpdateMessageStatus, CreateOutbound
<1> QED
  BY <1>1, <1>2, <1>3, <1>4 DEF Runs

\* The tables hold rows of their kind after every step of a run.
LEMMA TablesTyped ==
  ASSUME IndInv, NEW e \in Mails, Runs(e)
  PROVE  rows' \subseteq Row /\ records' \in Seq(Record) /\ faults' \in 0..MaxFaults
<1>0. /\ rows \subseteq Row /\ records \in Seq(Record) /\ faults \in 0..MaxFaults
      /\ job[e] \in Job /\ mail[e] \in Mail
  BY RunAt DEF IndInv, TypeOK
<1>1. faults' \in 0..MaxFaults
  <2>1. NoFault \/ Fault \/ UNCHANGED faults
    BY DEF Runs, Upsert, CreateInbound, NoReply, FindThread, Sent, SendFails, AnswerLost, Refused,
           UpdateMessageStatus, CreateOutbound
  <2> QED
    BY <1>0, <2>1 DEF Fault, NoFault
<1>2. rows' \subseteq Row
  <2> DEFINE r == [conversation |-> resolveThreadId(mail[e]), key |-> RowKey(mail[e]), from |-> mail[e].author]
  <2>1. UNCHANGED rows \/ rows' = rows \cup {r}
    BY DEF Runs, Upsert, CreateInbound, NoReply, FindThread, Sent, SendFails, AnswerLost, Refused,
           UpdateMessageStatus, CreateOutbound
  <2>2. r \in Row
    BY <1>0, ConversationTyped DEF Row, Mail
  <2> QED
    BY <1>0, <2>1, <2>2
<1>3. records' \in Seq(Record)
  <2> DEFINE in == [conversation |-> job[e].row, message |-> e, provider |-> mail[e].id]
             out == [conversation |-> Conversation(mail[e]), message |-> e,
                     provider |-> Id(e, IF Transport = "smtp" THEN "out" ELSE "api")]
  <2>1. \/ UNCHANGED records \/ records' = Append(records, in)
        \/ records' = Append(records, out)
    BY DEF Runs, Upsert, CreateInbound, NoReply, FindThread, Sent, SendFails, AnswerLost, Refused,
           UpdateMessageStatus, CreateOutbound
  <2>2. in \in Record
    BY <1>0 DEF Record, Job, Mail, Mails
  <2>3. out \in Record
    <3>1. e \in 1..MaxMails
      BY DEF IndInv, TypeOK, Mails
    <3>2. Id(e, IF Transport = "smtp" THEN "out" ELSE "api") \in Ids
      BY <3>1 DEF Id, Ids
    <3> QED
      BY <1>0, <3>2, ConversationFound DEF Record, Mails, IndInv
  <2> HIDE DEF in, out
  <2>4. CASE UNCHANGED records
    BY <1>0, <2>4
  <2>5. CASE records' = Append(records, in)
    BY <1>0, <2>2, <2>5, AppendProperties
  <2>6. CASE records' = Append(records, out)
    BY <1>0, <2>3, <2>6, AppendProperties
  <2> QED
    BY <2>1, <2>4, <2>5, <2>6
<1> QED
  BY <1>1, <1>2, <1>3

\* A row that is added names who wrote the e-mail.
LEMMA RowsStayNamed ==
  ASSUME IndInv, NEW e \in Mails, Runs(e)
  PROVE  \A r \in rows' : Wrote(mail, r.from, r.conversation)
<1> DEFINE r == [conversation |-> resolveThreadId(mail[e]), key |-> RowKey(mail[e]), from |-> mail[e].author]
<1>1. UNCHANGED rows \/ rows' = rows \cup {r}
  BY DEF Runs, Upsert, CreateInbound, NoReply, FindThread, Sent, SendFails, AnswerLost, Refused,
         UpdateMessageStatus, CreateOutbound
<1>2. Wrote(mail, r.from, r.conversation)
  BY DEF Wrote, Mails
<1> HIDE DEF r
<1> QED
  BY <1>1, <1>2 DEF IndInv, RowsNamed

\* A step of a run keeps the invariant.
LEMMA RunsKeepInv ==
  ASSUME IndInv, NEW e \in Mails, Runs(e)
  PROVE  IndInv'
<1>1. Sound(e) /\ mail' = mail
  BY RunsSoundly
<1>2. /\ job' \in Seq(Job) /\ Len(job') = Len(mail)
      /\ \A f \in Mails : Counted(job'[f]) /\ Addressed(mail, f, job'[f])
  BY <1>1, SoundKeepsJobs
<1>3. rows' \subseteq Row /\ records' \in Seq(Record) /\ faults' \in 0..MaxFaults
  BY TablesTyped
<1>4. TypeOK'
  BY <1>1, <1>2, <1>3 DEF IndInv, TypeOK, Mails
<1>5. Exchange'
  BY <1>1 DEF IndInv, Exchange, Mails
<1>7. RowsNamed'
  BY <1>1, RowsStayNamed DEF RowsNamed
<1>6. \A f \in Mails' : Counted(job'[f]) /\ Addressed(mail', f, job'[f])
  BY <1>1, <1>2 DEF Mails
<1> QED
  BY <1>4, <1>5, <1>6, <1>7 DEF IndInv, Counted

\* Another e-mail takes nothing from what was said of those before it.
LEMMA Longer ==
  ASSUME TypeOK, NEW ns, Len(ns) = Len(mail) + 1, \A f \in Mails : ns[f] = mail[f]
  PROVE  /\ \A a, c : Wrote(mail, a, c) => Wrote(ns, a, c)
         /\ \A f \in Mails : /\ Arrived(mail, f) => Arrived(ns, f)
                            /\ \A j : Addressed(mail, f, j) => Addressed(ns, f, j)
<1>1. Len(mail) \in Nat /\ Mails = 1..Len(mail) /\ Mails \subseteq 1..Len(ns)
  BY LenProperties DEF TypeOK, Mails
<1>2. ASSUME NEW a, NEW c, Wrote(mail, a, c) PROVE Wrote(ns, a, c)
  BY <1>1, <1>2 DEF Wrote
<1>3. ASSUME NEW f \in Mails
      PROVE  /\ mail[f].opener \in Mails
             /\ mail[f].parent # 0 => mail[f].parent \in Mails
             /\ mail[f].approvedIn # 0 => mail[f].approvedIn \in Mails
  <2>1. mail[f] \in Mail /\ mail[f].parent < f /\ mail[f].approvedIn < f /\ mail[f].opener \in 1..f
    BY ElementOfSeq DEF TypeOK, Mails
  <2> QED
    BY <1>1, <2>1 DEF Mail
<1>4. ASSUME NEW o \in Mails, NEW ids, Within(mail, o, ids) PROVE Within(ns, o, ids)
  <2> SUFFICES ASSUME ns[o].id # NoId, NEW id \in ids
               PROVE  id[1] \in 1..Len(ns) /\ ns[id[1]].opener = o
    BY DEF Within
  <2>1. id[1] \in Mails /\ mail[id[1]].opener = o
    BY <1>1, <1>4 DEF Within
  <2> QED
    BY <1>1, <2>1
<1>5. ASSUME NEW f \in Mails, Arrived(mail, f) PROVE Arrived(ns, f)
  <2>1. ns[f] = mail[f] /\ ns[mail[f].opener] = mail[mail[f].opener]
    BY <1>3
  <2>2. mail[f].parent # 0 => ns[mail[f].parent] = mail[mail[f].parent]
    BY <1>3
  <2>3. Within(ns, mail[f].opener, Mentioned(mail[f]))
    BY <1>3, <1>4, <1>5 DEF Arrived
  <2> QED
    BY <1>5, <2>1, <2>2, <2>3 DEF Arrived
<1>6. ASSUME NEW f \in Mails, NEW j, Addressed(mail, f, j) PROVE Addressed(ns, f, j)
  <2>1. ns[f] = mail[f] /\ ConversationIn(ns, ns[f]) = ConversationIn(mail, mail[f])
    BY <1>3 DEF ConversationIn
  <2> QED
    BY <1>2, <1>3, <1>4, <1>6, <2>1 DEF Addressed
<1> QED
  BY <1>2, <1>5, <1>6

\* What an e-mail that arrives, and the run it begins, have to be.
Fits(m, run) ==
  /\ m \in Mail
  /\ m.parent \in {0} \cup Mails /\ m.approvedIn \in {0} \cup Mails /\ m.opener \in Mails \cup {Next1}
  /\ Arrived(Append(mail, m), Next1)
  /\ run \in Job /\ Counted(run) /\ run.deliver = "finding" /\ run.copies = 0

\* A run that has done nothing is sound.
LEMMA NewJobFits ==
  /\ NewJob \in Job /\ Counted(NewJob)
  /\ NewJob.deliver = "finding" /\ NewJob.copies = 0
  /\ LET run == [NewJob EXCEPT !.persist = "over"] IN
     run \in Job /\ Counted(run) /\ run.deliver = "finding" /\ run.copies = 0
<1>1. NewJob.headers \in [references : References, inReplyTo : Ids]
  BY NoIdTyped, EmptySeq DEF NewJob, References
<1>2. NoId \in Conversations /\ 0 \in 0..MAX_RETRIES
  BY NoIdTyped, Attempts DEF Conversations
<1>3. NewJob \in Job /\ Counted(NewJob)
  BY <1>1, <1>2, Attempts DEF NewJob, Job, Counted, People, Nobody
<1>4. NewJob.deliver = "finding" /\ NewJob.copies = 0
  BY DEF NewJob
<1> QED
  BY <1>3, <1>4 DEF Job, Counted

\* An e-mail that fits what has arrived keeps the invariant.
LEMMA ArrivesKeepsInv ==
  ASSUME IndInv, NEW m, NEW run, Fits(m, run), Arrives(m, run)
  PROVE  IndInv'
<1>1. /\ mail \in Seq(Mail) /\ job \in Seq(Job) /\ Len(job) = Len(mail)
      /\ m \in Mail /\ run \in Job /\ Len(mail) \in Nat /\ Len(mail) < MaxMails
      /\ mail' = Append(mail, m) /\ job' = Append(job, run) /\ TypeOK
  BY LenProperties DEF IndInv, TypeOK, Fits, Arrives
<1>2. /\ mail' \in Seq(Mail) /\ Len(mail') = Len(mail) + 1 /\ mail'[Len(mail) + 1] = m
      /\ \A f \in Mails : mail'[f] = mail[f]
  BY <1>1, AppendProperties DEF Mails
<1>3. /\ job' \in Seq(Job) /\ Len(job') = Len(mail) + 1 /\ job'[Len(mail) + 1] = run
      /\ \A f \in Mails : job'[f] = job[f]
  BY <1>1, AppendProperties DEF Mails
<1>4. Mails' = Mails \cup {Len(mail) + 1} /\ Mails = 1..Len(mail)
  BY <1>1, <1>2 DEF Mails
<1> DEFINE ns == mail'
<1>5. /\ \A a, c : Wrote(mail, a, c) => Wrote(ns, a, c)
      /\ \A f \in Mails : /\ Arrived(mail, f) => Arrived(ns, f)
                         /\ \A j : Addressed(mail, f, j) => Addressed(ns, f, j)
  <2>1. Len(ns) = Len(mail) + 1 /\ \A f \in Mails : ns[f] = mail[f]
    BY <1>2
  <2> HIDE DEF ns
  <2> QED
    BY <1>1, <2>1, Longer
<1>6. TypeOK'
  <2>1. \A f \in Mails' : mail'[f].parent < f /\ mail'[f].approvedIn < f /\ mail'[f].opener \in 1..f
    <3>1. \A f \in Mails : mail'[f].parent < f /\ mail'[f].approvedIn < f /\ mail'[f].opener \in 1..f
      BY <1>2 DEF IndInv, TypeOK
    <3>2. /\ m.parent = 0 \/ m.parent \in 1..Len(mail)
          /\ m.approvedIn = 0 \/ m.approvedIn \in 1..Len(mail)
          /\ m.opener \in 1..Len(mail) \/ m.opener = Len(mail) + 1
      BY <1>4 DEF Fits, Next1
    <3>3. LET n == Len(mail) + 1 IN
          mail'[n].parent < n /\ mail'[n].approvedIn < n /\ mail'[n].opener \in 1..n
      BY <1>1, <1>2, <3>2
    <3> QED
      BY <1>4, <3>1, <3>3
  <2>2. UNCHANGED <<rows, records, faults>>
    BY DEF Arrives
  <2>3. Len(mail') <= MaxMails
    BY <1>1, <1>2
  <2>4. rows \subseteq Row /\ records \in Seq(Record) /\ faults \in 0..MaxFaults
    BY DEF IndInv, TypeOK
  <2> QED
    BY <1>2, <1>3, <2>1, <2>2, <2>3, <2>4 DEF TypeOK
<1>7. Exchange'
  <2>1. \A f \in Mails : Arrived(ns, f)
    BY <1>5 DEF IndInv, Exchange
  <2>2. Arrived(ns, Len(mail) + 1)
    BY <1>1 DEF Fits, Next1
  <2> HIDE DEF ns
  <2>3. \A f \in Mails' : Arrived(ns, f)
    BY <1>4, <2>1, <2>2
  <2> QED
    BY <2>3 DEF Exchange, ns
<1>8. RowsNamed'
  <2>1. \A r \in rows : Wrote(ns, r.from, r.conversation)
    BY <1>5 DEF IndInv, RowsNamed
  <2>2. rows' = rows
    BY DEF Arrives
  <2> QED
    BY <2>1, <2>2 DEF RowsNamed
<1>9. \A f \in Mails' : Counted(job'[f]) /\ Addressed(ns, f, job'[f])
  <2>1. Addressed(ns, Len(mail) + 1, run) /\ Counted(run)
    BY DEF Addressed, Fits
  <2>2. \A f \in Mails : Counted(job[f]) /\ Addressed(ns, f, job[f])
    BY <1>5 DEF IndInv
  <2> HIDE DEF ns
  <2> QED
    BY <1>3, <1>4, <2>1, <2>2
<1> QED
  BY <1>6, <1>7, <1>8, <1>9 DEF IndInv, Counted

\* What has arrived is followed by m.
LEMMA Followed ==
  ASSUME IndInv, NEW m \in Mail
  PROVE  /\ Len(Append(mail, m)) = Next1 /\ Append(mail, m)[Next1] = m
         /\ \A f \in Mails : Append(mail, m)[f] = mail[f]
         /\ Next1 \in Nat /\ Next1 # 0 /\ Next1 \notin Mails /\ Mails = 1..Len(mail) /\ Len(mail) \in Nat
BY AppendProperties, LenProperties DEF IndInv, TypeOK, Mails, Next1

\* The first e-mail of an exchange fits.
LEMMA WritesFits ==
  ASSUME IndInv, NEW o \in Openings, Writes(o[1], o[2], o[3])
  PROVE  IndInv'
<1> DEFINE m == [author |-> o[1], subject |-> o[2], id |-> IF o[3] THEN Id(Next1, "in") ELSE NoId,
                 references |-> <<>>, inReplyTo |-> NoId, parent |-> 0, opener |-> Next1,
                 approvedIn |-> 0]
           ns == Append(mail, m)
<1>1. Arrives(m, NewJob)
  BY DEF Writes
<1>2. o[1] \in People /\ o[2] \in Subjects /\ Next1 \in Nat
  BY LenProperties DEF People, Next1, IndInv, TypeOK
<1>3. (IF o[3] THEN Id(Next1, "in") ELSE NoId) \in Ids
  BY <1>1, NoIdTyped, LenProperties DEF Id, Ids, Arrives, Next1, IndInv, TypeOK
<1>4. <<>> \in References /\ Range(<<>>) = {}
  BY EmptySeq DEF References, Range
<1>5. m \in Mail
  BY <1>2, <1>3, <1>4, NoIdTyped DEF Mail
<1>6. /\ m.references = <<>> /\ m.approvedIn = 0 /\ m.opener = Next1 /\ m.parent = 0
      /\ m.inReplyTo = NoId /\ m.id \in {NoId, Id(Next1, "in")}
  OBVIOUS
<1> HIDE DEF m
<1>7. Arrived(ns, Next1)
  <2>1. ns[Next1] = m
    BY <1>5, Followed
  <2>2. Mentioned(m) = {}
    BY <1>4, <1>6 DEF Mentioned
  <2> HIDE DEF ns
  <2> QED
    BY <1>6, <2>1, <2>2 DEF Arrived, Within
<1>8. Fits(m, NewJob)
  BY <1>5, <1>6, <1>7, NewJobFits DEF Fits
<1> QED
  BY <1>1, <1>8, ArrivesKeepsInv

\* A follow-up fits as well.
LEMMA FollowsUpFits ==
  ASSUME IndInv, NEW e \in Mails, FollowsUp(e)
  PROVE  IndInv'
<1> DEFINE m == [author |-> Nobody, subject |-> mail[e].subject, id |-> NoId,
                 references |-> <<>>, inReplyTo |-> NoId, parent |-> 0, opener |-> Next1,
                 approvedIn |-> e]
           ns == Append(mail, m)
           run == [NewJob EXCEPT !.persist = "over"]
<1>1. Arrives(m, run)
  BY DEF FollowsUp
<1>2. mail[e].subject \in Subjects /\ Next1 \in Nat /\ e \in Nat
  BY RunAt, LenProperties DEF Mail, Next1, Mails, IndInv, TypeOK
<1>3. <<>> \in References /\ Range(<<>>) = {}
  BY EmptySeq DEF References, Range
<1>4. m \in Mail
  BY <1>2, <1>3, NoIdTyped DEF Mail, People
<1>5. /\ m.references = <<>> /\ m.approvedIn = e /\ m.opener = Next1 /\ m.parent = 0
      /\ m.inReplyTo = NoId /\ m.id = NoId /\ m.author = Nobody
  OBVIOUS
<1> HIDE DEF m
<1>6. Arrived(ns, Next1)
  <2>1. ns[Next1] = m
    BY <1>4, Followed
  <2>2. Mentioned(m) = {}
    BY <1>3, <1>5 DEF Mentioned
  <2> HIDE DEF ns
  <2> QED
    BY <1>5, <2>1, <2>2 DEF Arrived, Within
<1>7. run \in Job /\ Counted(run) /\ run.deliver = "finding" /\ run.copies = 0
  BY NewJobFits
<1> HIDE DEF run, ns
<1>8. Fits(m, run)
  BY <1>4, <1>5, <1>6, <1>7 DEF Fits, ns
<1> QED
  BY <1>1, <1>8, ArrivesKeepsInv

\* So does an answer to a reply, whatever its mail program keeps.
LEMMA AnswersFits ==
  ASSUME IndInv, NEW e \in Mails, NEW keeps \in {"both", "reply", "none"}, Answers(e, keeps)
  PROVE  IndInv'
<1> DEFINE r == job[e].headers.references
           our == Id(e, "out")
           refs == IF keeps = "both" THEN Append(r, our) ELSE <<>>
           reply == IF keeps = "none" THEN NoId ELSE our
           m == [author |-> job[e].to, subject |-> ensureReplySubject(mail[e].subject), id |-> Id(Next1, "in"),
                 references |-> refs, inReplyTo |-> reply,
                 parent |-> e, opener |-> mail[e].opener, approvedIn |-> 0]
           ns == Append(mail, m)
<1>1. Arrives(m, NewJob) /\ job[e].copies > 0
  BY DEF Answers
<1>2. /\ job[e] \in Job /\ mail[e] \in Mail /\ Arrived(mail, e)
      /\ Heads(mail[e], r) /\ Within(mail, mail[e].opener, {job[e].headers.inReplyTo} \cup Range(r))
      /\ mail[e].opener \in Mails
  <2>1. Addressed(mail, e, job[e]) /\ job[e] \in Job /\ mail[e] \in Mail /\ Arrived(mail, e)
    BY RunAt DEF IndInv, Exchange
  <2>2. mail[e].opener \in 1..e /\ e \in 1..Len(mail) /\ Len(mail) \in Nat
    BY LenProperties DEF IndInv, TypeOK, Mails
  <2> QED
    BY <1>1, <2>1, <2>2 DEF Addressed, Mails
<1>3. /\ job[e].to \in People /\ r \in Seq(Ids \ {NoId}) /\ e \in Nat /\ e # 0
      /\ mail[e].opener \in Nat /\ ensureReplySubject(mail[e].subject) \in Subjects
  BY <1>2 DEF Job, References, Mail, Mails, ensureReplySubject
<1>4. our \in Ids \ {NoId} /\ Id(Next1, "in") \in Ids \ {NoId}
  <2>1. e \in 1..MaxMails /\ Next1 \in 1..MaxMails
    BY <1>1, LenProperties DEF Arrives, Next1, Mails, IndInv, TypeOK
  <2> QED
    BY <2>1, NoIdTyped DEF Id, Ids
<1>5. /\ refs \in References /\ Range(refs) \subseteq Range(r) \cup {our}
      /\ refs # <<>> /\ mail[e].references # <<>> => Head(refs) = Head(mail[e].references)
  <2>1. Append(r, our) \in References /\ Range(Append(r, our)) \subseteq Range(r) \cup {our}
    BY <1>3, <1>4, AppendProperties DEF References, Range
  <2>2. <<>> \in References /\ Range(<<>>) = {}
    BY EmptySeq DEF References, Range
  <2>3. ASSUME mail[e].references # <<>> PROVE Head(Append(r, our)) = Head(mail[e].references)
    <3>1. r # <<>> /\ Head(r) = Head(mail[e].references)
      BY <1>2, <2>3 DEF Heads
    <3>2. Len(r) \in Nat /\ Len(r) # 0
      BY <1>3, <3>1, EmptySeq, LenProperties
    <3>3. Append(r, our)[1] = r[1]
      BY <1>3, <1>4, <3>2, AppendProperties
    <3> QED
      BY <2>1, <1>3, <3>1, <3>3 DEF References
  <2> QED
    BY <2>1, <2>2, <2>3
<1>6. reply \in Ids /\ (reply = NoId \/ reply = our)
  BY <1>4, NoIdTyped
<1>12. our[1] = e
  BY DEF Id
<1> HIDE DEF refs, reply, r, our
<1>7. m \in Mail
  BY <1>3, <1>4, <1>5, <1>6 DEF Mail
<1>8. /\ m.references = refs /\ m.inReplyTo = reply /\ m.parent = e /\ m.opener = mail[e].opener
      /\ m.approvedIn = 0 /\ m.id = Id(Next1, "in") /\ m.id # NoId
      /\ m.subject = ensureReplySubject(mail[e].subject)
  BY <1>4
<1> HIDE DEF m
<1>9. /\ ns[Next1] = m /\ \A f \in Mails : ns[f] = mail[f]
      /\ Len(ns) = Next1 /\ Mails = 1..Len(mail) /\ Mails \subseteq 1..Len(ns)
  BY <1>7, Followed DEF Next1
<1> HIDE DEF ns
<1>10. Arrived(ns, Next1)
  <2>1. Mentioned(m) \subseteq Range(r) \cup {our}
    BY <1>5, <1>6, <1>8 DEF Mentioned
  <2>2. ASSUME ns[m.opener].id # NoId, NEW id \in Mentioned(m)
        PROVE  id[1] \in 1..Len(ns) /\ ns[id[1]].opener = m.opener
    <3>1. CASE id = our
      BY <1>8, <1>9, <1>12, <3>1
    <3>2. CASE id \in Range(r)
      <4>1. mail[mail[e].opener].id # NoId
        BY <1>2, <1>8, <1>9, <2>2
      <4>2. id[1] \in 1..Len(mail) /\ mail[id[1]].opener = mail[e].opener
        BY <1>2, <3>2, <4>1 DEF Within
      <4> QED
        BY <1>8, <1>9, <4>2
    <3> QED
      BY <2>1, <2>2, <3>1, <3>2
  <2>3. Within(ns, m.opener, Mentioned(m))
    BY <2>2 DEF Within
  <2>4. ns[m.parent] = mail[e]
    BY <1>8, <1>9
  <2> QED
    BY <1>5, <1>8, <1>9, <2>3, <2>4 DEF Arrived
<1>11. Fits(m, NewJob)
  BY <1>2, <1>7, <1>8, <1>10, NewJobFits DEF Fits, ns
<1> QED
  BY <1>1, <1>11, ArrivesKeepsInv

\* The invariant of the proofs holds of every behaviour.
THEOREM Invariance == Spec => []IndInv
<1>1. Init => IndInv
  <2> SUFFICES ASSUME Init PROVE IndInv
    OBVIOUS
  <2>1. Mails = {} /\ Len(mail) = 0 /\ Len(job) = 0
    BY EmptySeq DEF Init, Mails
  <2>2. mail \in Seq(Mail) /\ job \in Seq(Job) /\ records \in Seq(Record)
    BY EmptySeq DEF Init
  <2> QED
    BY <2>1, <2>2 DEF Init, IndInv, TypeOK, Exchange, RowsNamed
<1>2. IndInv /\ [Next]_vars => IndInv'
  <2> SUFFICES ASSUME IndInv, [Next]_vars PROVE IndInv'
    OBVIOUS
  <2>1. ASSUME NEW o \in Openings, Writes(o[1], o[2], o[3]) PROVE IndInv'
    BY <2>1, WritesFits
  <2>2. ASSUME NEW e \in Mails, NEW keeps \in {"both", "reply", "none"}, Answers(e, keeps) PROVE IndInv'
    BY <2>2, AnswersFits
  <2>3. ASSUME NEW e \in Mails, Runs(e) PROVE IndInv'
    BY <2>3, RunsKeepInv
  <2>4. CASE UNCHANGED vars
    BY <2>4 DEF IndInv, TypeOK, Exchange, RowsNamed, Counted, Mails, vars
  <2>5. ASSUME NEW e \in Mails, FollowsUp(e) PROVE IndInv'
    BY <2>5, FollowsUpFits
  <2> QED
    BY <2>1, <2>2, <2>3, <2>4, <2>5 DEF Next, Runs
<1> QED
  BY <1>1, <1>2, PTL DEF Spec

-----------------------------------------------------------------------------
(* What follows.                                                           *)

\* Every variable keeps its type: the tables of persistEmailThread, the runs of
\* deliverToEmail, and e-mails that answer only earlier ones.
THEOREM TypeCorrect == Spec => []TypeOK
<1>1. IndInv => TypeOK
  BY DEF IndInv
<1> QED
  BY <1>1, Invariance, PTL

\* resolveThreadId keeps an exchange together: when both e-mails have References they
\* begin with the same e-mail, and bare e-mails are found by their common subject.
THEOREM RepliesStayTogether == Spec => []ExchangeStaysTogether
<1>1. IndInv => ExchangeStaysTogether
  <2> SUFFICES ASSUME IndInv, NEW f \in Mails, mail[f].parent # 0, mail[mail[f].parent].approvedIn = 0
               PROVE  LET m == mail[f]  p == mail[m.parent]
                          bare(x) == x.references = <<>> /\ x.inReplyTo = NoId /\ x.subject # Blank
                      IN (m.references # <<>> /\ p.references # <<>>) \/ (bare(m) /\ bare(p))
                           => resolveThreadId(m) = resolveThreadId(p)
    BY DEF ExchangeStaysTogether
  <2>1. Arrived(mail, f)
    BY DEF IndInv, Exchange
  <2> QED
    BY <2>1 DEF Arrived, resolveThreadId, ensureReplySubject
<1> QED
  BY <1>1, Invariance, PTL

\* deliverToEmail sends to somebody who wrote in the conversation, also when only the row
\* says to whom, and builds the headers of a reply from e-mails of its own exchange,
\* whatever row and last record it finds beside it.
THEOREM SentAmongItsOwn == Spec => []StaysAmongItsOwn
<1>1. IndInv => StaysAmongItsOwn
  <2> SUFFICES ASSUME IndInv, NEW e \in Mails, job[e].copies > 0
               PROVE  LET m == mail[e]  h == job[e].headers IN
                      /\ \E f \in Mails : /\ mail[f].approvedIn = 0 /\ mail[f].author = job[e].to
                                         /\ resolveThreadId(mail[f]) = Conversation(m)
                      /\ mail[m.opener].id # NoId =>
                           \A id \in {h.inReplyTo} \cup Range(h.references) :
                             id[1] \in Mails /\ mail[id[1]].opener = m.opener
    BY DEF StaysAmongItsOwn
  <2>1. /\ job[e].to # Nobody /\ Wrote(mail, job[e].to, Conversation(mail[e]))
        /\ Within(mail, mail[e].opener, {job[e].headers.inReplyTo} \cup Range(job[e].headers.references))
    BY ConversationFound DEF IndInv, Addressed
  <2>2. PICK f \in Mails : mail[f].author = job[e].to /\ resolveThreadId(mail[f]) = Conversation(mail[e])
    BY <2>1 DEF Wrote, Mails
  <2>3. mail[f].approvedIn = 0
    BY <2>1, <2>2 DEF IndInv, Exchange, Arrived
  <2> QED
    BY <2>1, <2>2, <2>3 DEF Within, Mails
<1> QED
  BY <1>1, Invariance, PTL

\* The status that deliverToEmail writes is true of the copies sendEmail gave out, however
\* often it tried and whatever answers were lost.
THEOREM StatusTellsTheTruth == Spec => []StatusIsTrue
<1>1. IndInv => StatusIsTrue
  BY DEF IndInv, StatusIsTrue, Counted
<1> QED
  BY <1>1, Invariance, PTL

=============================================================================
