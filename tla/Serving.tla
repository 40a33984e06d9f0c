------------------------------- MODULE Serving -------------------------------
(***************************************************************************)
(* The life of a request at the network surfaces of api.py (HTTP, the      *)
(* JSON-RPC of /mcp, the streamable HTTP of /mcp/stream): its body comes   *)
(* in, it takes one snapshot of the index or several while publications    *)
(* go on, asks the judge of query_action_judgment.py, is answered, and     *)
(* leaves an event in the log of io_logging.py.  How an index comes to be  *)
(* published is in ProjectionCache, the git status of an answer in         *)
(* GitServe.                                                               *)
(***************************************************************************)
EXTENDS Integers, Sequences, FiniteSets

CONSTANTS
    Requests,
    Contents,         \* what a published index was built from
    Nothing,
    Judges,           \* of "off", "unconfigured" (no API key) and "system-one"
    MaxResponse,      \* MAX_PROVIDER_RESPONSE_BYTES, in reads of the socket
    MaxCapture,       \* MAX_BODY_CAPTURE_BYTES, in chunks
    MaxChunks,        \* bound: the chunks of a request's body
    MaxPublications   \* bound: publications of an index

ASSUME ServingAssumption ==
    /\ Nothing \notin Contents
    /\ Judges \subseteq {"off", "unconfigured", "system-one"}
    /\ MaxResponse \in Nat /\ MaxChunks \in Nat \ {0} /\ MaxPublications \in Nat
    /\ MaxCapture \in Nat

VARIABLES
    judge,         \* the mode of the judge, which the server starts with
    content,       \* the content of the published index
    past,          \* the contents that were published before it
    publications,
    ask,           \* what each request asks for
    here,          \* the clients that are still connected
    progress,
    left,          \* the chunks of its body that have not been received
    looks,         \* the snapshots it has still to take
    pages, label,  \* the contents its pages and its source or bundle id come from
    reads,         \* the reads of the judge's answer so far
    guidance,      \* the status of retrieval_action_guidance
    status,        \* of its answer
    sent,          \* the status its client was sent, of a whole answer
    logged,        \* the flag of its IoLoggingMiddleware call
    events         \* the statuses of its events in the log

published == <<judge, content, past, publications>>
received == <<ask, left>>
built == <<looks, pages, label>>
judged == <<reads, guidance>>
logs == <<logged, events>>
serveVars == <<published, received, here, progress, built, judged, status, sent, logs>>

-----------------------------------------------------------------------------
(* What a request can ask *)

Surfaces == {"http", "rpc", "stream"}
\* "pages" stands for search, read and the graph, which take one snapshot
Operations == {"context", "pages", "source_refs", "source_bundle", "resources"}

\* Mutant: source_bundle lists the references before it reads its manifest
SnapshotsPagesFirst(operation) ==
    CASE operation \in {"context", "pages"} -> <<"pages">>
      [] operation = "source_refs" -> <<"pages", "label">>
      [] operation = "source_bundle" -> <<"pages", "dropped", "label">>
      [] operation = "resources" -> <<"label", "pages">>

\* The snapshots of an operation, in order, and what it takes from each.  source_bundle keeps
\* the label of its own manifest and drops that of its source_refs.
Snapshots(operation) ==
    CASE operation \in {"context", "pages"} -> <<"pages">>
      [] operation = "source_refs" -> <<"pages", "label">>
      [] operation = "source_bundle" -> <<"label", "pages", "dropped">>
      [] operation = "resources" -> <<"label", "pages">>

\* The JSON of a body: JSON escapes of lone surrogates parse but cannot be encoded; a number of
\* more digits than int() takes, or the deepest nesting, stops json.loads with an exception that
\* is no JSONDecodeError; less of it parses, and stops the recursion of redact_value
Bodies == {"plain", "surrogate", "unreadable", "nested"}

\* origin: its Origin header is allowed; valid: its headers and arguments pass validation
Asks == {a \in [surface : Surfaces, operation : Operations, chunks : 1..MaxChunks,
                origin : BOOLEAN, valid : BOOLEAN, text : Bodies] :
            a.operation = "resources" => a.surface = "stream"}
NoAsk == [surface |-> "http", operation |-> "pages", chunks |-> 1,
          origin |-> TRUE, valid |-> TRUE, text |-> "plain"]

ServeInit ==
    /\ judge \in Judges
    /\ content \in Contents /\ past = {} /\ publications = 0
    /\ ask = [r \in Requests |-> NoAsk]
    /\ here = Requests
    /\ progress = [r \in Requests |-> "new"]
    /\ left = [r \in Requests |-> 0]
    /\ looks = [r \in Requests |-> <<>>]
    /\ pages = [r \in Requests |-> Nothing] /\ label = [r \in Requests |-> Nothing]
    /\ reads = [r \in Requests |-> 0]
    /\ guidance = [r \in Requests |-> "none"]
    /\ status = [r \in Requests |-> 0] /\ sent = [r \in Requests |-> 0]
    /\ logged = [r \in Requests |-> FALSE]
    /\ events = [r \in Requests |-> <<>>]

Go(r, p) == progress' = [progress EXCEPT ![r] = p]
\* An answer that is ready to be sent, and an exception that no surface handles
Answer(r, s) == Go(r, "answer") /\ status' = [status EXCEPT ![r] = s]
Raise(r) == Go(r, "raise") /\ UNCHANGED status

-----------------------------------------------------------------------------
(* The body comes in *)

Arrive(r) ==
    /\ progress[r] = "new"
    /\ \E a \in Asks :
        /\ ask' = [ask EXCEPT ![r] = a]
        /\ left' = [left EXCEPT ![r] = a.chunks]
        /\ IF a.origin THEN Go(r, "body") /\ UNCHANGED status
                       ELSE Answer(r, 403)
    /\ UNCHANGED <<published, here, built, judged, sent, logs>>

Leave(r) ==
    /\ progress[r] # "new" /\ progress[r] # "ended"
    /\ here' = here \ {r}
    /\ UNCHANGED <<published, received, progress, built, judged, status, sent, logs>>

Receive(r) ==
    /\ progress[r] = "body" /\ r \in here /\ left[r] > 0
    /\ left' = [left EXCEPT ![r] = @ - 1]
    /\ UNCHANGED <<published, ask, here, progress, built, judged, status, sent, logs>>

\* The stream's middleware skips every message that is not a part of the body, that of a
\* disconnect included, which the server repeats; the other surfaces give up
Disconnect(r) ==
    /\ progress[r] = "body" /\ r \notin here /\ left[r] > 0
    /\ ask[r].surface # "stream"
    /\ Answer(r, 400)
    /\ UNCHANGED <<published, received, here, built, judged, sent, logs>>

\* A refusal at the HTTP and JSON-RPC surfaces repeats the input that was refused
Refuse(r) == IF ask[r].surface = "stream" THEN Answer(r, 400)
             ELSE Answer(r, 422) \/ (ask[r].text # "plain" /\ Raise(r))

\* FastAPI answers every exception of a body; parse_json_object lets all but two through
Unread(r) ==
    /\ ask[r].text = "unreadable"
    /\ IF ask[r].surface = "stream" THEN Raise(r) ELSE Answer(r, 400)
    /\ UNCHANGED looks

Rejected(r) ==
    /\ ask[r].text # "unreadable" /\ ~ask[r].valid
    /\ Refuse(r) /\ UNCHANGED looks

\* With a protocol header the stream's body is encoded anew, which fails for a body that
\* cannot be; the SDK parses it again
Reencoded(r) ==
    /\ ask[r].surface = "stream" /\ ask[r].valid /\ ask[r].text \in {"surrogate", "nested"}
    /\ Raise(r) \/ (ask[r].text = "nested" /\ Answer(r, 400))
    /\ UNCHANGED looks

Accepted(r) ==
    /\ ask[r].valid /\ ask[r].text # "unreadable"
    /\ ask[r].surface = "stream" => ask[r].text # "surrogate"
    /\ looks' = [looks EXCEPT ![r] = Snapshots(ask[r].operation)]
    /\ Go(r, "look") /\ UNCHANGED status

Validate(r) ==
    /\ progress[r] = "body" /\ left[r] = 0
    /\ Unread(r) \/ Rejected(r) \/ Reencoded(r) \/ Accepted(r)
    /\ UNCHANGED <<published, received, here, pages, label, judged, sent, logs>>

-----------------------------------------------------------------------------
(* The index is read *)

Publish ==
    /\ publications < MaxPublications
    /\ \E c \in Contents \ {content} : content' = c
    /\ past' = past \cup {content}
    /\ publications' = publications + 1
    /\ UNCHANGED <<judge, received, here, progress, built, judged, status, sent, logs>>

Look(r) ==
    /\ progress[r] = "look" /\ looks[r] # <<>>
    /\ LET into == Head(looks[r]) IN
        /\ pages' = IF into = "pages" THEN [pages EXCEPT ![r] = content] ELSE pages
        /\ label' = IF into = "label" THEN [label EXCEPT ![r] = content] ELSE label
    /\ looks' = [looks EXCEPT ![r] = Tail(@)]
    /\ UNCHANGED <<published, received, here, progress, judged, status, sent, logs>>

\* HTTP answers the exceptions that have a handler
HttpFails(r) == ask[r].surface = "http" /\ (Answer(r, 500) \/ Answer(r, 400) \/ Raise(r))
\* The JSON-RPC surface answers every exception of an operation with an error
RpcFails(r) == ask[r].surface = "rpc" /\ Answer(r, 200)
\* So do the stream's tools; a list of resources is then empty
StreamFails(r) == ask[r].surface = "stream" /\ Answer(r, 200)

LookFails(r) ==
    /\ progress[r] = "look" /\ looks[r] # <<>>
    /\ pages' = [pages EXCEPT ![r] = Nothing] /\ label' = [label EXCEPT ![r] = Nothing]
    /\ looks' = [looks EXCEPT ![r] = <<>>]
    /\ HttpFails(r) \/ RpcFails(r) \/ StreamFails(r)
    /\ UNCHANGED <<published, received, here, judged, sent, logs>>

\* Everything is read; a context goes to the judge
Looked(r) ==
    /\ progress[r] = "look" /\ looks[r] = <<>>
    /\ IF ask[r].operation = "context" THEN Go(r, "judge") ELSE Go(r, "render")
    /\ UNCHANGED <<published, received, here, built, judged, status, sent, logs>>

-----------------------------------------------------------------------------
(* apply_query_action_judgment *)

Guide(r, g) == guidance' = [guidance EXCEPT ![r] = g] /\ Go(r, "render")

NotAsked(r) ==
    /\ progress[r] = "judge" /\ judge # "system-one"
    /\ Guide(r, IF judge = "off" THEN "none" ELSE "unconfigured")
    /\ UNCHANGED <<published, received, here, built, reads, status, sent, logs>>

AskJudge(r) ==
    /\ progress[r] = "judge" /\ judge = "system-one" /\ ask[r].text # "surrogate"
    /\ Go(r, "asked")
    /\ UNCHANGED <<published, received, here, built, judged, status, sent, logs>>

\* Mutant: the whole response is read, however long
ReadMoreUnbounded(r) ==
    /\ progress[r] = "asked"
    /\ reads' = [reads EXCEPT ![r] = IF @ <= MaxResponse THEN @ + 1 ELSE 0]
    /\ UNCHANGED <<published, received, here, progress, built, guidance, status, sent, logs>>

\* Each read of the socket may take the whole timeout, and one byte more than the limit is read
ReadMore(r) ==
    /\ progress[r] = "asked" /\ reads[r] <= MaxResponse
    /\ reads' = [reads EXCEPT ![r] = @ + 1]
    /\ UNCHANGED <<published, received, here, progress, built, guidance, status, sent, logs>>

\* An answer within the limit that names an action is taken, every exception is a failure
JudgeAnswers(r) ==
    /\ progress[r] = "asked"
    /\ \E g \in {"ok", "failed"} :
        /\ g = "ok" => reads[r] <= MaxResponse
        /\ Guide(r, g)
    /\ UNCHANGED <<published, received, here, built, reads, status, sent, logs>>

CannotAsk(r) ==
    /\ progress[r] = "judge" /\ judge = "system-one" /\ ask[r].text = "surrogate"
    /\ Guide(r, "failed")
    /\ UNCHANGED <<published, received, here, built, reads, status, sent, logs>>

-----------------------------------------------------------------------------
(* The answer is rendered, sent and logged *)

\* A context repeats its query, and text that cannot be encoded fails outside of every handler
Render(r) ==
    /\ progress[r] = "render"
    /\ IF ask[r].operation = "context" /\ ask[r].text = "surrogate" THEN Raise(r) ELSE Answer(r, 200)
    /\ UNCHANGED <<published, received, here, built, judged, sent, logs>>

SendAnswer(r) ==
    /\ progress[r] = "answer"
    /\ sent' = IF r \in here THEN [sent EXCEPT ![r] = status[r]] ELSE sent
    /\ Go(r, "log")
    /\ UNCHANGED <<published, received, here, built, judged, status, logs>>

SendBreaks(r) ==
    /\ progress[r] = "answer" /\ r \notin here
    /\ Raise(r)
    /\ UNCHANGED <<published, received, here, built, judged, sent, logs>>

Dropped == 0
\* What the sink makes of an event: an error of the disk is swallowed
Written(s) == {s, Dropped}

\* A request's body is in its event only on the paths of BODY_CAPTURE_PATHS; one that was
\* received whole, and is no longer than the capture, is read as JSON and redacted
Captured(a) == a.surface # "http" \/ a.operation = "context"
Received(r) == ask[r].chunks - left[r]
Summarized(r) == Captured(ask[r]) /\ Received(r) \in 1..MaxCapture
MustFail(r) == Summarized(r) /\ left[r] = 0 /\ ask[r].text # "plain"
\* A part of an unreadable body may fail as the whole does, and the answer to a refusal, which
\* is always captured, repeats what is nested
MayFail(r) ==
    \/ MustFail(r)
    \/ Summarized(r) /\ ask[r].text = "unreadable"
    \/ ask[r].text = "nested" /\ status[r] = 422

WriteEvent(r, s) ==
    \E e \in Written(s) : events' = [events EXCEPT ![r] = Append(@, e)]

LogAnswer(r) ==
    /\ progress[r] = "log"
    /\ logged' = [logged EXCEPT ![r] = TRUE]
    /\ \/ ~MustFail(r) /\ WriteEvent(r, status[r]) /\ Go(r, "ended")
       \/ MayFail(r) /\ Go(r, "raise") /\ UNCHANGED events
    /\ UNCHANGED <<published, received, here, built, judged, status, sent>>

\* Mutant: the exception is logged with the status of an answer
LogExceptionAsAnswered(r) ==
    /\ progress[r] = "raise"
    /\ \/ ~logged[r] /\ ~MustFail(r) /\ WriteEvent(r, 200)
       \/ (logged[r] \/ MayFail(r)) /\ UNCHANGED events
    /\ sent' = IF r \in here /\ sent[r] = 0 THEN [sent EXCEPT ![r] = 500] ELSE sent
    /\ Go(r, "ended")
    /\ UNCHANGED <<published, received, here, built, judged, status, logged>>

\* An exception no surface handled is logged and raised again; the framework answers it if
\* no answer has begun
LogException(r) ==
    /\ progress[r] = "raise"
    /\ \/ ~logged[r] /\ ~MustFail(r) /\ WriteEvent(r, 500)
       \/ (logged[r] \/ MayFail(r)) /\ UNCHANGED events
    /\ sent' = IF r \in here /\ sent[r] = 0 THEN [sent EXCEPT ![r] = 500] ELSE sent
    /\ Go(r, "ended")
    /\ UNCHANGED <<published, received, here, built, judged, status, logged>>

-----------------------------------------------------------------------------
Handle(r) ==
    \/ Receive(r) \/ Disconnect(r) \/ Validate(r)
    \/ Look(r) \/ LookFails(r) \/ Looked(r)
    \/ NotAsked(r) \/ AskJudge(r) \/ CannotAsk(r) \/ ReadMore(r) \/ JudgeAnswers(r)
    \/ Render(r) \/ SendAnswer(r) \/ SendBreaks(r) \/ LogAnswer(r) \/ LogException(r)

ServeNext == Publish \/ \E r \in Requests : Arrive(r) \/ Leave(r) \/ Handle(r)

\* A connected client sends its body, and the server's threads, its event loop and the
\* timeouts of the judge's socket move a request on
Fairness == \A r \in Requests : WF_serveVars(Handle(r))

ServeSpec == ServeInit /\ [][ServeNext]_serveVars
FairServeSpec == ServeSpec /\ Fairness

-----------------------------------------------------------------------------
(* Properties *)

ServeTypes ==
    /\ judge \in Judges
    /\ content \in Contents /\ past \subseteq Contents /\ publications \in 0..MaxPublications
    /\ ask \in [Requests -> Asks] /\ here \subseteq Requests
    /\ progress \in [Requests -> {"new", "body", "look", "judge", "asked", "render", "answer",
                               "raise", "log", "ended"}]
    /\ left \in [Requests -> 0..MaxChunks]
    /\ looks \in [Requests -> Seq({"pages", "label", "dropped"})]
    /\ pages \in [Requests -> Contents \cup {Nothing}]
    /\ label \in [Requests -> Contents \cup {Nothing}]
    /\ reads \in [Requests -> 0..MaxResponse + 1]
    /\ guidance \in [Requests -> {"none", "unconfigured", "failed", "ok"}]
    /\ status \in [Requests -> Nat] /\ sent \in [Requests -> Nat]
    /\ logged \in [Requests -> BOOLEAN] /\ events \in [Requests -> Seq(Nat)]

\* bundle_id "combines the source_id with a content-derived projection signature so
\* orchestration layers can detect when a served projection changed" (docs/architecture.md): a
\* bundle or a list of resources whose pages are of another content than its label has a label
\* that has been replaced already, which the next comparison shows.
MixedShows ==
    \A r \in Requests :
        /\ ask[r].operation \in {"source_bundle", "resources"}
        /\ pages[r] # Nothing /\ label[r] # Nothing
        => pages[r] = label[r] \/ label[r] \in past

\* Every request that ends left one event, with the status its client was sent, unless the
\* disk refused it or the log captured what it cannot read, redact or encode: an escaped
\* surrogate, a number of too many digits, nesting that is too deep.  What is not captured, not
\* received or longer than the capture leaves one all the same, but for a refusal that repeats
\* what is nested.
LoggedAsSent ==
    \A r \in Requests : progress[r] = "ended" =>
        /\ Len(events[r]) <= 1
        /\ events[r] = <<>> => \/ ask[r].text # "plain" /\ Summarized(r)
                               \/ ask[r].text = "nested" /\ status[r] = 422
        /\ \A i \in DOMAIN events[r] : events[r][i] # Dropped /\ sent[r] # 0
                                       => events[r][i] = sent[r]

\* Every request ends, however slowly the judge answers, except one of the stream whose client
\* leaves before its body is complete.
EveryRequestEnds ==
    \A r \in Requests :
        progress[r] # "new" ~> \/ progress[r] = "ended"
                               \/ r \notin here /\ ask[r].surface = "stream" /\ left[r] > 0
=============================================================================
