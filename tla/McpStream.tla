------------------------------ MODULE McpStream ------------------------------
(***************************************************************************)
(* What the streamable HTTP surface of api.py lets through to the MCP SDK, *)
(* and in which form: the validation of the mirrored headers and of _meta, *)
(* the recognition of the handshake of older revisions, the mirror headers *)
(* and the _meta fields that are filled in.  Everything is a function of   *)
(* the request, and a header is the text a client wrote.                   *)
(***************************************************************************)

CONSTANTS
    Supported, OtherVersions,  \* protocol versions, the first MCP_SUPPORTED_PROTOCOL_VERSIONS
    Ours,                      \* the client info and capabilities that are filled in
    Names,                     \* of tools, pages and prompts, none of them empty
    Wrapped,                   \* the names that themselves have the form =?base64?...?=
    Accented,                  \* the names that are not printable ASCII
    Missing, Null, Malformed   \* no such field or header, a null, a value of a wrong form

VARIABLES
    passage,  \* of the request in the middleware
    request,  \* as its client sent it
    got       \* as the SDK gets it

mcpVars == <<passage, request, got>>

Methods == {"initialize", "tools/list", "tools/call"}
Values == Names \cup Methods

\* A header is plain text, or the base64 form of a text
Plain(v) == [form |-> "plain", text |-> v]
Encoded(v) == [form |-> "base64", text |-> v]
\* encode_mcp_header_value: what is printable ASCII is sent as it is
Ascii(v) == v \notin Accented
Encode(v) == IF Ascii(v) THEN Plain(v) ELSE Encoded(v)
\* decode_mcp_header_value: a text of the encoded form is decoded, here to no text of ours
Decode(h) ==
    IF h = Malformed \/ (h.form = "plain" /\ h.text \in Wrapped) THEN Malformed ELSE h.text
Headers(S) == {Missing, Malformed} \cup {Encode(v) : v \in S} \cup {Encoded(v) : v \in S}

-----------------------------------------------------------------------------
(* Requests *)

Versions == Supported \cup OtherVersions
Nowhere == {Missing, Null, Malformed}

\* _meta of an object of parameters: nothing, null, not an object, or its standard fields
Metas == Nowhere \cup [version : Versions \cup Nowhere, info : {"theirs"} \cup Nowhere]
\* params: absent or null, not an object, or an object with a name and _meta
Params == {Missing, Malformed} \cup [name : Names \cup {Missing}, meta : Metas]

HttpRequests ==
    [accept : BOOLEAN, method : Methods \cup {Missing}, params : Params,
     methodHeader : Headers(Methods), nameHeader : Headers(Names),
     protocol : Versions \cup {Missing, Malformed}]

\* What is not there is no text, no version, no header and no object; methods need no decoding
ASSUME McpAssumption ==
    /\ Missing # Null /\ Missing # Malformed /\ Null # Malformed
    /\ Nowhere \cap (Values \cup Versions \cup {"theirs", Ours}) = {}
    /\ Nowhere \cap ({Plain(v) : v \in Values} \cup {Encoded(v) : v \in Values}) = {}
    /\ LET metas == [version : Versions \cup Nowhere, info : {"theirs", Ours} \cup Nowhere]
       IN  /\ Nowhere \cap metas = {}
           /\ Nowhere \cap [name : Names \cup {Missing}, meta : Nowhere \cup metas] = {}
    /\ Wrapped \cap Methods = {}

Fields(q) == q.params \notin {Missing, Malformed}
Meta(q) == IF Fields(q) THEN q.params.meta ELSE Missing
HasMeta(q) == Meta(q) \notin {Missing, Null, Malformed}

\* mcp_required_name_value
RequiredName(q) ==
    IF q.method = "tools/call" /\ Fields(q) THEN q.params.name ELSE Missing

\* is_legacy_initialize_request
IsLegacy(q) ==
    /\ q.method = "initialize" /\ q.protocol = Missing
    /\ q.methodHeader # Missing => Decode(q.methodHeader) = "initialize"
    /\ Meta(q) # Malformed
    /\ HasMeta(q) => Meta(q).version = Missing

-----------------------------------------------------------------------------
(* validate_mcp_streamable_http_request *)

\* A mirror header that is there names what the body names
Mirrors(header, value) == header # Missing => Decode(header) = value

\* A field that is null passes as one that is missing
MetaAgrees(q) ==
    /\ Meta(q) \notin {Null, Malformed}
    /\ HasMeta(q) => /\ Meta(q).version \in {Missing, Null, q.protocol}
                     /\ Meta(q).info # Malformed

Passes(q) ==
    /\ q.accept
    /\ q.method # Missing /\ ~IsLegacy(q) =>
        /\ q.protocol \in Supported
        /\ Mirrors(q.methodHeader, q.method)
        /\ MetaAgrees(q)
        /\ q.method = "tools/call" => Mirrors(q.nameHeader, RequiredName(q))

-----------------------------------------------------------------------------
(* What the SDK gets *)

\* scope_with_mcp_mirror_headers
WithHeaders(q) ==
    [q EXCEPT !.methodHeader = IF @ = Missing THEN Encode(q.method) ELSE @,
              !.nameHeader = IF @ = Missing /\ RequiredName(q) # Missing
                             THEN Encode(RequiredName(q)) ELSE @]

\* body_with_synthesized_mcp_request_meta: fields of the request win over those filled in
Filled(q) ==
    LET theirs == IF HasMeta(q) THEN Meta(q) ELSE [version |-> Missing, info |-> Missing]
    IN  [version |-> IF theirs.version = Missing THEN q.protocol ELSE theirs.version,
         info |-> IF theirs.info = Missing THEN Ours ELSE theirs.info]

\* Mutant: _meta is filled only when there is none
WithMetaWhenAbsent(q) ==
    IF q.protocol \notin Supported \/ q.params = Malformed \/ Meta(q) # Missing THEN q
    ELSE [q EXCEPT !.params = [name |-> IF Fields(q) THEN q.params.name ELSE Missing,
                               meta |-> Filled(q)]]

WithMeta(q) ==
    IF q.protocol \notin Supported \/ q.params = Malformed \/ Meta(q) \in {Null, Malformed}
    THEN q
    ELSE [q EXCEPT !.params = [name |-> IF Fields(q) THEN q.params.name ELSE Missing,
                               meta |-> Filled(q)]]

\* A body without a method is left as it is
Forwarded(q) == IF q.method = Missing THEN q ELSE WithHeaders(WithMeta(q))

-----------------------------------------------------------------------------
(* McpStreamableHttpValidationMiddleware.__call__ *)

McpInit == passage = "received" /\ request \in HttpRequests /\ got = request

RefuseRequest ==
    /\ passage = "received" /\ ~Passes(request)
    /\ passage' = "refused" /\ UNCHANGED <<request, got>>

ForwardRequest ==
    /\ passage = "received" /\ Passes(request)
    /\ passage' = "forwarded" /\ got' = Forwarded(request) /\ UNCHANGED request

McpNext == RefuseRequest \/ ForwardRequest

McpSpec == McpInit /\ [][McpNext]_mcpVars

-----------------------------------------------------------------------------
(* Properties *)

\* A field whose null hides the one that would be filled in, and a name whose mirror header
\* would be decoded
Odd(q) ==
    \/ HasMeta(q) /\ Null \in {Meta(q).version, Meta(q).info}
    \/ RequiredName(q) \in Wrapped

\* "omitted or partial _meta is synthesized for known current clients before SDK dispatch"
\* (REQ-MCP-2026-004): what reaches the SDK carries one method, one name and one version in
\* its headers and its body, with every standard field, and would pass and be left unchanged
\* if it were sent again; a handshake of an older revision keeps its body.
ForwardedAgrees ==
    passage = "forwarded" /\ request.method # Missing /\ ~Odd(request) =>
        /\ IsLegacy(request) => got.params = request.params
        /\ ~IsLegacy(request) /\ request.params # Malformed =>
            /\ Meta(got).version = got.protocol
            /\ Meta(got).info = IF HasMeta(request) /\ Meta(request).info = "theirs"
                                THEN "theirs" ELSE Ours
        /\ Decode(got.methodHeader) = got.method
        /\ RequiredName(got) # Missing => Decode(got.nameHeader) = RequiredName(got)
        /\ RequiredName(got) = RequiredName(request)
        /\ Passes(got) /\ Forwarded(got) = got
=============================================================================
