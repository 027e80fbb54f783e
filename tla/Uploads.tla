------------------------------- MODULE Uploads -------------------------------
(***************************************************************************)
(* POST /api/ipfs/upload (src/routes/ipfs.ts): one account's requests,     *)
(* each counted against the account's daily quota                          *)
(* (src/db/uploadQuotaRepository.ts), parsed by busboy, whose file is      *)
(* copied into a PassThrough (src/utils/streamUtils.ts) and then posted to *)
(* Pinata (src/services/ipfs.ts).                                          *)
(*                                                                         *)
(* The order of events is Node's and busboy's: a file's bytes come before  *)
(* the end of the body, "finish" after the end of the file, and the        *)
(* request's "close" once its body has been read or its connection is      *)
(* gone.  What a step does is the handlers'.  A size is 1 for a file that  *)
(* keeps within MAX_FILE_BYTES, more for one that does not.                *)
(***************************************************************************)
EXTENDS Integers, FiniteSets

CONSTANTS
    Uploads,     \* the account's requests
    MaxDaily,    \* MAX_DAILY_UPLOADS
    MaxDay,      \* bound: days
    MaxFailures  \* bound: database errors

ASSUME UploadsAssumption ==
    /\ MaxDaily \in Nat \ {0} /\ MaxDay \in Nat \ {0} /\ MaxFailures \in Nat

MaxBytes == 1  \* MAX_FILE_BYTES, and busboy's limits.fileSize
Days == 1..MaxDay
Kinds == {"none", "audio", "other"}  \* what busboy has met in the form: no file, or one of that type
Unanswered == 0

VARIABLES
    today,
    quota,   \* the row of upload_quotas; a count of 0 where there is none
    pc,      \* a request: where it is
    day,     \* CURRENT_DATE in its statement, fixed when the statement started
    form,    \* its file: kind and size
    body,    \* the request's body: still coming, read, or followed by "close"
    stream,  \* fileStream, the PassThrough
    pin,     \* the bytes Pinata has pinned for it
    answer,  \* the status it was answered with
    granted, \* history: how many statements of a day found the quota kept
    stragglers,  \* history: statements of an older day than the row
    failures

request == <<pc, day, form, body, stream, pin, answer>>
counts == <<granted, stragglers>>
vars == <<today, quota, request, counts, failures>>

InProgress == {"quota", "body", "upload", "pinned"}

TypeOK ==
    /\ today \in Days /\ quota \in [count : Nat, day : Days]
    /\ pc \in [Uploads -> InProgress \cup {"start", "answered", "gone"}]
    /\ day \in [Uploads -> Days] /\ form \in [Uploads -> [kind : Kinds, size : 1..MaxBytes + 1]]
    /\ body \in [Uploads -> {"coming", "read", "closed"}]
    /\ stream \in [Uploads -> {"none", "open", "ended", "destroyed"}]
    /\ pin \in [Uploads -> 0..MaxBytes]
    /\ answer \in [Uploads -> {Unanswered, 200, 400, 413, 415, 429, 500}]
    /\ \A u \in Uploads : answer[u] # Unanswered <=> pc[u] = "answered"
    /\ granted \in [Days -> Nat] /\ stragglers \in Nat /\ failures \in 0..MaxFailures

Init ==
    /\ today = 1 /\ quota = [count |-> 0, day |-> 1]
    /\ pc = [u \in Uploads |-> "start"] /\ day = [u \in Uploads |-> 1]
    /\ form = [u \in Uploads |-> [kind |-> "none", size |-> 1]]
    /\ body = [u \in Uploads |-> "coming"] /\ stream = [u \in Uploads |-> "none"]
    /\ pin = [u \in Uploads |-> 0] /\ answer = [u \in Uploads |-> Unanswered]
    /\ granted = [d \in Days |-> 0] /\ stragglers = 0 /\ failures = 0

Goto(u, step) == pc' = [pc EXCEPT ![u] = step]

\* What is left of the request's body is of no consequence once it is answered.
Over(u) == body' = [body EXCEPT ![u] = "closed"]

\* Mutant of Reply: the return is forgotten.
ReplyAndGoOn(u, status) ==
    Goto(u, "body") /\ answer' = [answer EXCEPT ![u] = status] /\ UNCHANGED body

Reply(u, status) ==
    Goto(u, "answered") /\ answer' = [answer EXCEPT ![u] = status] /\ Over(u)
----------------------------------------------------------------------------
(* The quota.                                                              *)

Midnight ==
    /\ today < MaxDay /\ today' = today + 1
    /\ UNCHANGED <<quota, request, counts, failures>>

\* checkAndIncrementQuota's statement starts; it may yet wait for the row.
Begin(u) ==
    /\ pc[u] = "start" /\ day' = [day EXCEPT ![u] = today] /\ Goto(u, "quota")
    /\ UNCHANGED <<today, quota, form, body, stream, pin, answer, counts, failures>>

\* Mutant of CountOn: the date is not looked at.
CountForever(d) == quota.count + 1

\* uploads_today: one more on the day of the row, 1 on another.
CountOn(d) == IF quota.day = d THEN quota.count + 1 ELSE 1

CheckQuota(u) ==
    LET n == CountOn(day[u]) IN
    /\ pc[u] = "quota" /\ quota' = [count |-> n, day |-> day[u]]
    /\ stragglers' = IF day[u] < quota.day THEN stragglers + 1 ELSE stragglers
    /\ IF n <= MaxDaily
       THEN /\ Goto(u, "body") /\ UNCHANGED <<body, answer>>
            /\ granted' = [granted EXCEPT ![day[u]] = @ + 1]
       ELSE Reply(u, 429) /\ UNCHANGED granted
    /\ UNCHANGED <<today, day, form, stream, pin, failures>>

\* A throw outside the route's try: the rejection is nobody's, the process dies, and with it
\* whatever else it was at.
ProcessDies ==
    LET lost == {v \in Uploads : pc[v] \in InProgress} IN
    /\ pc' = [v \in Uploads |-> IF v \in lost THEN "gone" ELSE pc[v]]
    /\ stream' = [v \in Uploads |-> IF v \in lost /\ stream[v] # "none"
                                    THEN "destroyed" ELSE stream[v]]
    /\ body' = [v \in Uploads |-> IF v \in lost THEN "closed" ELSE body[v]]

\* The quota's statement throws.
QuotaFails(u) ==
    /\ pc[u] = "quota" /\ failures < MaxFailures /\ failures' = failures + 1
    /\ ProcessDies
    /\ UNCHANGED <<today, quota, day, form, pin, answer, counts>>

\* busboy's constructor throws: for a header that names multipart/form-data and no boundary.
BusboyThrows(u) ==
    /\ pc[u] = "body" /\ body[u] = "coming" /\ form[u].kind = "none"
    /\ ProcessDies
    /\ UNCHANGED <<today, quota, day, form, pin, answer, counts, failures>>
----------------------------------------------------------------------------
(* Parsing.                                                                *)

\* destroyStreams(fileStream)
Destroy(u) == stream' = [stream EXCEPT ![u] = IF @ = "none" THEN @ ELSE "destroyed"]

\* The route's catch.
Fails(u, status) == Reply(u, status) /\ Destroy(u)

\* ALLOWED_MIMES
Allowed(kind) == kind = "audio"

\* busboy's file event, when it meets one in the form.
FileEvent(u, kind, size) ==
    /\ pc[u] = "body" /\ body[u] = "coming" /\ form[u].kind = "none"
    /\ form' = [form EXCEPT ![u] = [kind |-> kind, size |-> size]]
    /\ IF Allowed(kind)
       THEN stream' = [stream EXCEPT ![u] = "open"] /\ UNCHANGED <<pc, body, answer>>
       ELSE Fails(u, 415)
    /\ UNCHANGED <<today, quota, day, pin, counts, failures>>

\* What busboy passes on of a file: its own limit is the route's.
Passed(size) == IF size > MaxBytes THEN MaxBytes ELSE size

\* The file's last bytes come through enforceStreamSize, and its end.
FileEnds(u) ==
    /\ pc[u] = "body" /\ stream[u] = "open"
    /\ IF Passed(form[u].size) > MaxBytes
       THEN Fails(u, 413)
       ELSE stream' = [stream EXCEPT ![u] = "ended"] /\ UNCHANGED <<pc, body, answer>>
    /\ UNCHANGED <<today, quota, day, form, pin, counts, failures>>

\* The body has been read, and busboy has met its file in it, if there is one.
BodyRead(u) ==
    /\ pc[u] = "body" /\ body[u] = "coming"
    /\ body' = [body EXCEPT ![u] = "read"]
    /\ UNCHANGED <<today, quota, pc, day, form, stream, pin, answer, counts, failures>>

\* Mutant of OnClose: nobody listens.
NoOnClose(u) == UNCHANGED stream

\* The handler of the request's close event, before uploadCompleted is set.
OnClose(u) == Destroy(u)

\* Node emits close when the body has been read, not only when the client has gone.
RequestCloses(u) ==
    /\ pc[u] \in {"body", "upload", "pinned"} /\ body[u] = "read"
    /\ body' = [body EXCEPT ![u] = "closed"] /\ OnClose(u)
    /\ UNCHANGED <<today, quota, pc, day, form, pin, answer, counts, failures>>

\* The client leaves, or Node's request timeout cuts it off, while the body is coming: busboy
\* hears no more, and the promise stays unsettled.
Disconnect(u) ==
    /\ pc[u] = "body" /\ body[u] = "coming"
    /\ Goto(u, "gone") /\ OnClose(u) /\ Over(u)
    /\ UNCHANGED <<today, quota, day, form, pin, answer, counts, failures>>

\* busboy's error event: a form that is none, or ends before its time.
BusboyError(u) ==
    /\ pc[u] = "body" /\ Fails(u, 500)
    /\ UNCHANGED <<today, quota, day, form, pin, counts, failures>>

\* busboy's finish event, when it has passed on all there is.
Finish(u) ==
    /\ pc[u] = "body" /\ body[u] # "coming" /\ stream[u] # "open"
    /\ IF stream[u] = "none" THEN Fails(u, 400)
                             ELSE Goto(u, "upload") /\ UNCHANGED <<body, stream, answer>>
    /\ UNCHANGED <<today, quota, day, form, pin, counts, failures>>
----------------------------------------------------------------------------
(* uploadToIPFS.                                                           *)

\* Pinata has received the whole of the stream, and pins it.
Pin(u) ==
    /\ pc[u] = "upload" /\ stream[u] = "ended"
    /\ pin' = [pin EXCEPT ![u] = Passed(form[u].size)] /\ Goto(u, "pinned")
    /\ UNCHANGED <<today, quota, day, form, body, stream, answer, counts, failures>>

\* Its answer with the CID: uploadCompleted = true.
PinataAnswers(u) ==
    /\ pc[u] = "pinned" /\ Reply(u, 200)
    /\ UNCHANGED <<today, quota, day, form, stream, pin, counts, failures>>

\* Mutant of TimesOut.
NeverTimesOut(u) == stream[u] = "ended"

\* Pinata answers with an error, or not at all: for 60 seconds, which is also how a stream
\* that was destroyed before it was read ends.  It may have pinned the file all the same.
TimesOut(u) == pc[u] \in {"upload", "pinned"}

UploadFails(u) ==
    /\ pc[u] \in {"upload", "pinned"} /\ TimesOut(u) /\ Fails(u, 500)
    /\ UNCHANGED <<today, quota, day, form, pin, counts, failures>>

Parse(u) ==
    \/ \E size \in 1..MaxBytes + 1 : FileEvent(u, "audio", size)
    \/ FileEvent(u, "other", 1)
    \/ FileEnds(u) \/ BodyRead(u) \/ BusboyError(u) \/ Finish(u)

Post(u) == Pin(u) \/ PinataAnswers(u) \/ UploadFails(u)

Next ==
    \/ Midnight
    \/ \E u \in Uploads :
        \/ Begin(u) \/ CheckQuota(u) \/ QuotaFails(u) \/ BusboyThrows(u)
        \/ Parse(u) \/ RequestCloses(u) \/ Disconnect(u) \/ Post(u)

Spec == Init /\ [][Next]_vars

\* PostgreSQL answers; a body is read to its end unless its connection goes, which Node's
\* request timeout sees to; busboy emits what is due; axios has a timeout.
FairSpec ==
    /\ Spec
    /\ \A u \in Uploads :
        WF_vars(CheckQuota(u) \/ FileEnds(u) \/ BodyRead(u) \/ Finish(u) \/ Post(u))
----------------------------------------------------------------------------
(* Properties.                                                             *)

\* A day grants MaxDaily uploads and refuses none before - but for statements that started
\* on one day and got the row after one of the next: each can start both days' counts anew.
QuotaPerDay ==
    /\ \A d \in Days : granted[d] <= MaxDaily * (1 + stragglers)
    /\ \A u \in Uploads : answer[u] = 429 => granted[day[u]] >= MaxDaily

\* However a request ends, in whatever order the form, the close event, Pinata and the death
\* of the process come: a file is pinned behind every 200, nothing is ever pinned behind a
\* refusal, nor of a type that is not allowed, and no stream is left open when nobody is
\* there any more to read it.  (A 500, or no answer at all, may leave a file at Pinata.)
EndsCleanly ==
    \A u \in Uploads :
        /\ answer[u] = 200 => pin[u] # 0
        /\ pin[u] # 0 => form[u].kind = "audio" /\ answer[u] \notin {400, 413, 415, 429}
        /\ pc[u] \in {"answered", "gone"} => stream[u] # "open"

\* Every request that has begun is answered, unless its client leaves in the middle of it or
\* the process dies, however early the request's close event comes.
EveryUploadEnds ==
    \A u \in Uploads : pc[u] \in InProgress ~> pc[u] \in {"answered", "gone"}
=============================================================================
