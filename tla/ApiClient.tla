------------------------------ MODULE ApiClient ------------------------------
(***************************************************************************)
(* Applications that call the API through the client library, each over a  *)
(* connection of its own: conditional reads, the validators and errors the *)
(* server answers with, and what is left of them when the transport fails  *)
(* (src/client/newsApiClient.ts, src/http/conditional.ts,                  *)
(* src/http/responses.ts, src/http/retryAfter.ts).                         *)
(*                                                                         *)
(* One resource is read; data is its present content, for which a version  *)
(* stands.  The application keeps the envelopes it has received with their *)
(* tags, as the documentation of the library shows.                        *)
(***************************************************************************)
EXTENDS HttpServer

CONSTANTS
    Versions,   \* contents of the resource
    Hints       \* Retry-After values of the provider

VARIABLES
    data,       \* the present content
    call,       \* whether a call of the library is under way
    asked,      \* the If-None-Match it sent, as a sequence of tokens
    response,   \* the response to it, once started
    copies,     \* the envelopes that were kept
    result      \* how the last call has ended

client == <<call, asked, response, copies, result>>
clientVars == <<serverVars, data, client>>

-----------------------------------------------------------------------------
(* Validators                                                              *)

\* What an If-None-Match is made of: tags, "*", a token without quotes, and a
\* quote that is never closed.
Tag(weak, digest) == [kind |-> "tag", weak |-> weak, digest |-> digest]
Other(kind) == [kind |-> kind, weak |-> FALSE, digest |-> "none"]
Star == Other("star")

\* Mutant: the tag does not cover the articles.
createWeakEntityTag_MetaOnly(articles) == Tag(TRUE, "meta")

\* The digest covers what sendEnvelope passes it: not the requestId, nor the
\* cache status, of which an envelope is stripped here.
createWeakEntityTag(articles) == Tag(TRUE, articles)

\* Tokens without quotes are skipped; nothing counts from an open quote on.
parseEntityTags(header) ==
    {header[i] : i \in {j \in DOMAIN header :
        header[j].kind # "token" /\ \A k \in 1..j : header[k].kind # "open"}}

\* The weak comparison.
matchesIfNoneMatch(header, currentTag) ==
    \E tag \in parseEntityTags(header) :
        tag = Star \/ tag.digest = currentTag.digest

\* An application sends tags it holds copies of; on its way one may lose its
\* weak prefix, and it may stand in a list after another token.
Headers(c) ==
    LET tags == {Tag(weak, copy.etag.digest) : weak \in BOOLEAN, copy \in copies[c]}
    IN  {<<>>, <<Star>>} \cup {<<tag>> : tag \in tags}
        \cup {<<Other(kind), tag>> : kind \in {"token", "open"}, tag \in tags}

-----------------------------------------------------------------------------
(* Retry-After                                                             *)

\* Seconds, a date as the time from now until then, or anything else.
Seconds(n) == [form |-> "seconds", value |-> n]
Date(ms) == [form |-> "date", value |-> ms]
Useless == [form |-> "other", value |-> 0]
AllHints == {Useless} \cup [form : {"seconds", "date"}, value : Int]
ASSUME HintsAssumption == Hints \subseteq AllHints

MaxRetryAfter == 86400
NoHint == -1

\* Mutant: the seconds until a date are rounded down.
normalizeRetryAfter_Floors(hint) ==
    IF hint.form = "seconds" /\ hint.value \in 0..MaxSafe
    THEN AtMost(MaxRetryAfter, hint.value)
    ELSE IF hint.form = "date"
         THEN AtMost(MaxRetryAfter, AtLeast(0, hint.value \div 1000))
         ELSE NoHint

normalizeRetryAfter(hint) ==
    IF hint.form = "seconds" /\ hint.value \in 0..MaxSafe
    THEN AtMost(MaxRetryAfter, hint.value)
    ELSE IF hint.form = "date"
         THEN AtMost(MaxRetryAfter, AtLeast(0, (hint.value + 999) \div 1000))
         ELSE NoHint

\* Only the answers 429 and 503 of the provider pass their hint on.
mapAxiosError(status, hint) ==
    IF status \in {429, 503} THEN normalizeRetryAfter(hint) ELSE NoHint

\* An open circuit answers with what is left of its cooldown.
circuitRetryAfter(remainingMs) ==
    AtMost(MaxRetryAfter, AtLeast(1, (remainingMs + 999) \div 1000))

\* Milliseconds that were asked for.
Demand(hint) == IF hint.form = "seconds" THEN hint.value * 1000 ELSE hint.value

-----------------------------------------------------------------------------
(* Calls                                                                   *)

ClientTypeOK ==
    /\ ServerTypeOK
    /\ data \in Versions
    /\ call \in [Connections -> {"none", "waiting"}]
    /\ result \in [Connections -> {"none", "ok", "notModified", "apiError", "error"}]
    /\ \A c \in Connections :
          /\ stage[c] \in {"serving", "responding"} => call[c] = "waiting"
          /\ result[c] # "none" => call[c] = "none"

ClientInit ==
    /\ ServerInit
    /\ data \in Versions
    /\ call = [c \in Connections |-> "none"]
    /\ asked = [c \in Connections |-> <<>>]
    /\ response = [c \in Connections |-> [status |-> "none"]]
    /\ copies = [c \in Connections |-> {}]
    /\ result = [c \in Connections |-> "none"]

\* A method of the library is called: a request is sent, over a new connection
\* or over one that the server may have destroyed already.
request(c) ==
    /\ call[c] = "none"
    /\ call' = [call EXCEPT ![c] = "waiting"]
    /\ \E header \in Headers(c) : asked' = [asked EXCEPT ![c] = header]
    /\ result' = [result EXCEPT ![c] = "none"]
    /\ Become(c, "open") \/ UNCHANGED stage
    /\ wire' = [wire EXCEPT ![c] = <<>>]
    /\ response' = [response EXCEPT ![c] = [status |-> "none"]]
    /\ UNCHANGED <<settings, warns, log, backs, happened, data, copies>>

Unanswered(c) == call[c] = "waiting" /\ wire[c] = <<>>

\* sendEnvelope: the tag decides between the envelope and 304.
sendEnvelope(c) ==
    LET etag == createWeakEntityTag(data)
        unchanged == matchesIfNoneMatch(asked[c], etag)
    IN  /\ StartResponse(c, unchanged)
        /\ response' = [response EXCEPT ![c] =
              [status |-> IF unchanged THEN "304" ELSE "200",
               etag |-> etag, body |-> data]]

\* errorHandler: a structured error, with the hint of the provider's answer or
\* of the open circuit.
sendError(c) ==
    /\ StartResponse(c, FALSE)
    /\ \E hint \in Hints :
          \E retryAfter \in {mapAxiosError(status, hint) : status \in {429, 500, 503}}
                \cup (IF hint.form = "date" /\ hint.value > 0
                      THEN {circuitRetryAfter(hint.value)} ELSE {}) :
             response' = [response EXCEPT ![c] =
                 [status |-> "error", hint |-> hint, retryAfter |-> retryAfter]]

\* What the application has of a response: all of it, or of a destroyed
\* connection any part.
Received(c) ==
    IF stage[c] = "destroyed" THEN {SubSeq(wire[c], 1, n) : n \in 0..Len(wire[c])}
    ELSE IF wire[c] = <<"head">> /\ stage[c] = "responding" THEN {}
    ELSE {wire[c]} \ {<<>>}

\* getConditionalJson, readJson and throwForError: 304 needs no body, anything
\* else is read to its end.  A response of the transport layer has no envelope.
Outcome(c, received) ==
    IF received = <<>> \/ received[1] # "head" THEN "error"
    ELSE IF response[c].status = "304" THEN "notModified"
    ELSE IF Len(received) < 2 \/ received[2] # "body" THEN "error"
    ELSE IF response[c].status = "200" THEN "ok" ELSE "apiError"

Return(c) ==
    /\ call[c] = "waiting"
    /\ call' = [call EXCEPT ![c] = "none"]
    /\ \E received \in Received(c) :
          result' = [result EXCEPT ![c] = Outcome(c, received)]
    /\ copies' = IF result'[c] = "ok"
                 THEN [copies EXCEPT ![c] = @ \cup
                         {[etag |-> response[c].etag, body |-> response[c].body]}]
                 ELSE copies
    /\ UNCHANGED <<serverVars, data, asked, response>>

\* The content changes.
Change ==
    /\ data' \in Versions \ {data}
    /\ UNCHANGED <<serverVars, client>>

-----------------------------------------------------------------------------
ClientStep(c) ==
    \/ request(c) \/ Return(c)
    \/ /\ UNCHANGED <<data, call, asked, copies, result>>
       /\ \/ sendEnvelope(c) \/ sendError(c)
          \/ /\ UNCHANGED response
             /\ \/ Unanswered(c) /\ (Accept(c) \/ dropRequest(c))
                \/ EndResponse(c)
                \/ \E code \in Codes : handleHttpClientError(c, code)

ClientNext ==
    \/ \E c \in Connections : ClientStep(c)
    \/ Change
    \/ (Tick \/ StepBack) /\ UNCHANGED <<data, client>>

ClientSpec == ClientInit /\ [][ClientNext]_clientVars

-----------------------------------------------------------------------------
(* Properties                                                              *)

\* The transport layer never writes into a response that has started: its own
\* answer comes first or after a complete response.
ResponsesIntact ==
    \A c \in Connections : \A i \in 1..(Len(wire[c]) - 1) :
        wire[c][i + 1] = "raw" => wire[c][i] # "head" \/ response[c].status = "304"

\* "When the selected representation is unchanged, the API returns 304": then
\* the copy under the tag of the answer is what the resource was when it was
\* answered, unless the application asked for "*".
CopyCurrent ==
    \A c \in Connections :
        result[c] = "notModified" =>
            \/ asked[c] = <<Star>>
            \/ \E copy \in copies[c] : /\ copy.etag = response[c].etag
                                       /\ copy.body = response[c].body

\* The hint of an error is bounded, never shorter than what the provider asked
\* for unless the bound cuts it, and less than a second longer.
RetryHintHonest ==
    \A c \in Connections :
        result[c] = "apiError" /\ response[c].retryAfter # NoHint =>
            LET given == response[c].retryAfter
                demand == AtLeast(0, Demand(response[c].hint))
            IN  /\ given \in 0..MaxRetryAfter
                /\ given = MaxRetryAfter \/ given * 1000 >= demand
                /\ given * 1000 < demand + 1000
=============================================================================
