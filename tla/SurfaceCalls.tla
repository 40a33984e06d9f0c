----------------------------- MODULE SurfaceCalls -----------------------------
(***************************************************************************)
(* How a server starts from its options and environment (cli.py: serve,    *)
(* api.py: create_app), and what its surfaces make of one and the same     *)
(* request: HTTP, the JSON-RPC of /mcp, the tools of /mcp/stream, A2A and  *)
(* the command line each parse the arguments with rules of their own, and  *)
(* then call the service.                                                  *)
(*                                                                         *)
(* A value is what a client writes, tagged with its JSON type.  A parser   *)
(* gives the set of what it makes of a value: nothing if it refuses it.    *)
(* A parameter that may be None is a sequence of at most one value.        *)
(***************************************************************************)
EXTENDS Integers, FiniteSets, FiniteSetsExt, SequencesExt

CONSTANTS
    Bounds,        \* the least and greatest value of each number a request may give
    ContextLimit, GraphLimit, NeighborLimit,   \* DEFAULT_..._LIMIT
    IntTexts, LaxTexts,  \* the texts int() and pydantic take for integers, and the integers
    FloatTexts,    \* those float() takes for numbers, and twice the numbers
    Spelling,      \* the text of a number in a query string or an option
    Parts,         \* what every other text is once split at its commas
    LowerCase,     \* the texts with capitals, and what they become
    TrueTexts,     \* those bool_arg takes for true
    YesTexts, NoTexts,   \* those pydantic takes for true and for false
    Endless,       \* infinity, as twice a number
    Writes,        \* the values a client may give for each argument
    Titles, Broken,      \* of the wiki; a root that cannot be read
    Settings,      \* the options and environment a server may be started with
    MaxRetitles,   \* bound: changes of the title
    Unasked, Down, Refused

Tools == {"context", "search", "read", "graph", "neighbors", "source_refs", "source_bundle"}
Searches == {"context", "search"}
Sides == {"http", "rpc", "stream", "a2a", "cli"}

\* The arguments of each operation, beside what it is about
ArgumentsOf(op) ==
    CASE op \in Searches -> {"limit", "drafts", "mode", "fields", "snippet", "score",
                             "excluded", "variants"}
      [] op = "read" -> {"drafts", "fields", "query", "sections", "chars", "links"}
      [] op = "graph" -> {"graphLimit", "drafts"}
      [] op = "neighbors" -> {"seeds", "depth", "direction", "relations", "neighborLimit", "drafts"}
      [] OTHER -> {"drafts"}
Numeric == {"limit", "graphLimit", "neighborLimit", "depth", "snippet", "chars"}
Textual == {"fields", "excluded", "seeds", "relations", "query", "sections"}

VARIABLES
    settings,   \* the options and environment
    app,        \* Down, Refused, or what a server runs with
    title,      \* of the wiki, or Broken
    shown,      \* the tools the stream lists, with their descriptions
    retitles,
    wanted,     \* the request: its operation, and what it gives for each argument
    answers     \* of each side: what it did, and the set of the calls it made

callVars == <<settings, app, title, shown, retitles, wanted, answers>>

-----------------------------------------------------------------------------
(* Values and their parsers *)

Absent == <<"absent">>
NoValue == <<"null">>
Infinite == <<"infinite">>
Number(n) == <<"number", n>>
Fraction(n) == <<"fraction", n>>    \* n and a half
Flag(b) == <<"flag", b>>
Text(t) == <<"text", t>>
Texts(s) == <<"list", s>>

Type(x) == x[1]
Empty(x) == x \in {Absent, NoValue}
Falsy(x) == Empty(x) \/ x \in {Text(""), Number(0), Flag(FALSE), Texts(<<>>)}
IsNumber(x) == Type(x) \in {"number", "fraction", "infinite"}
ReadBy(texts, x) == IF Type(x) = "text" /\ x[2] \in DOMAIN texts THEN {texts[x[2]]} ELSE {}

\* What pydantic takes for an integer, and int(), which cuts fractions off but reads no "2.0"
LaxInt(x) ==
    CASE Type(x) = "number" -> {x[2]}
      [] Type(x) = "flag" -> {IF x[2] THEN 1 ELSE 0}
      [] OTHER -> ReadBy(LaxTexts, x)
PyInt(x) ==
    CASE Type(x) = "fraction" -> {IF x[2] >= 0 THEN x[2] ELSE x[2] + 1}
      [] Type(x) = "text" -> ReadBy(IntTexts, x)
      [] OTHER -> LaxInt(x)
\* float() and pydantic's, in halves
LaxFloat(x) ==
    CASE Type(x) = "number" -> {2 * x[2]}
      [] Type(x) = "fraction" -> {2 * x[2] + 1}
      [] Type(x) = "flag" -> {IF x[2] THEN 2 ELSE 0}
      [] x = Infinite -> {Endless}
      [] OTHER -> ReadBy(FloatTexts, x)
NotNegative(S) == {v \in S : v >= 0}
\* optional_nonnegative_float
Finite(S) == NotNegative(S) \ {Endless}

Clamp(n, a) == Max({Bounds[a][1], Min({n, Bounds[a][2]})})
InBounds(a) == Bounds[a][1]..Bounds[a][2]
Optional(S) == {<<v>> : v \in S}

\* clamp_int of an untyped value: int() of infinity raises what nobody catches
ClampInt(x, a, default) ==
    IF x = Infinite THEN {}
    ELSE {Clamp(n, a) : n \in IF PyInt(x) = {} THEN {default} ELSE PyInt(x)}
OptionalClamped(x, a) ==
    IF x = Infinite THEN {}
    ELSE IF PyInt(x) = {} THEN {<<>>} ELSE {<<Clamp(n, a)>> : n \in PyInt(x)}

LaxBool(x) ==
    CASE Type(x) = "flag" -> {x[2]}
      [] Type(x) = "number" /\ x[2] \in {0, 1} -> {x[2] = 1}
      [] Type(x) = "text" /\ x[2] \in YesTexts -> {TRUE}
      [] Type(x) = "text" /\ x[2] \in NoTexts -> {FALSE}
      [] OTHER -> {}

\* Mutant: as bool() takes a text, in which "false" is true
AnyTextIsTrue(x) ==
    CASE Type(x) = "flag" -> x[2]
      [] Type(x) = "text" -> x[2] # ""
      [] Type(x) = "number" -> x[2] # 0
      [] Type(x) = "list" -> x[2] # <<>>
      [] OTHER -> ~Empty(x)

\* bool_arg
BoolArg(x) ==
    CASE Type(x) = "flag" -> x[2]
      [] Type(x) = "text" -> x[2] \in TrueTexts
      [] Type(x) = "number" -> x[2] # 0
      [] Type(x) = "list" -> x[2] # <<>>
      [] OTHER -> ~Empty(x)
NetworkIncludeDrafts(b) == app.allowDrafts /\ b

SplitText(t) == IF t \in DOMAIN Parts THEN Parts[t] ELSE <<t>>
NonEmpty(s) == SelectSeq(s, LAMBDA t : t # "")
Deduplicated(s) ==
    FoldLeft(LAMBDA r, t : IF t = "" \/ t \in ToSet(r) THEN r ELSE Append(r, t), <<>>, s)
\* The parts of the texts of a list, one after the other
PartsOf(s) ==
    LET upto[n \in 0..Len(s)] == IF n = 0 THEN <<>> ELSE upto[n - 1] \o SplitText(s[n])
    IN  upto[Len(s)]
\* collect_string_args takes the items of a list as they are, split_option_values splits them
CollectStrings(x) ==
    CASE Type(x) = "text" -> SplitText(x[2])
      [] Type(x) = "list" -> Deduplicated(x[2])
      [] OTHER -> <<>>
SplitValues(x) == IF Type(x) = "list" THEN Deduplicated(PartsOf(x[2])) ELSE CollectStrings(x)
OptionalStrings(x) == IF Empty(x) THEN <<>> ELSE <<CollectStrings(x)>>
Fold(x) == IF Type(x) = "text" /\ x[2] \in DOMAIN LowerCase THEN Text(LowerCase[x[2]]) ELSE x
OneOf(S, x) == {t \in S : x = Text(t)}
Modes == {"lexical", "literal", "vector", "hybrid"}
Directions == {"in", "out", "both"}

IsValue(x) ==
    \/ x \in {Absent, NoValue, Infinite}
    \/ Type(x) \in {"number", "fraction"} /\ x = <<Type(x), x[2]>> /\ x[2] \in Int
    \/ Type(x) = "flag" /\ x = Flag(x[2]) /\ x[2] \in BOOLEAN
    \/ Type(x) = "text" /\ x = Text(x[2]) /\ x[2] \in STRING
    \/ Type(x) = "list" /\ x = Texts(x[2]) /\ x[2] \in Seq(STRING)

\* The text is read as the number it is written for, by all that read it
Spells(t, x) ==
    /\ t # "" /\ t \in STRING
    /\ ReadBy(LaxTexts, Text(t)) = LaxInt(x)
    /\ ReadBy(IntTexts, Text(t)) = LaxInt(x)
    /\ ReadBy(FloatTexts, Text(t)) = LaxFloat(x)
    /\ t \in YesTexts <=> x = Number(1)
    /\ t \in NoTexts <=> x = Number(0)
    /\ t \notin Modes \cup Directions \cup DOMAIN Parts

ASSUME CallsAssumption ==
    /\ \A a \in Numeric : /\ Bounds[a] \in Int \X Int /\ Bounds[a][1] <= Bounds[a][2]
    /\ ContextLimit \in InBounds("limit") /\ GraphLimit \in InBounds("graphLimit")
    /\ NeighborLimit \in InBounds("neighborLimit") /\ 1 \in InBounds("depth")
    /\ \A t \in DOMAIN IntTexts : IntTexts[t] \in Int
    /\ \A t \in DOMAIN LaxTexts : LaxTexts[t] \in Int
    /\ \A t \in DOMAIN IntTexts \cap DOMAIN LaxTexts : IntTexts[t] = LaxTexts[t]
    /\ \A t \in DOMAIN FloatTexts : FloatTexts[t] \in Int
    /\ "" \notin DOMAIN IntTexts \cup DOMAIN LaxTexts \cup DOMAIN FloatTexts
    /\ Endless \in Int /\ Endless >= 0
    /\ \A x \in DOMAIN Spelling : IsNumber(x) /\ Spells(Spelling[x], x)
    /\ "" \in DOMAIN Parts /\ Parts[""] = <<>>
    /\ DOMAIN LowerCase \cap (Modes \cup Directions) = {}
    /\ NoTexts \cap (YesTexts \cup TrueTexts) = {}

ASSUME WritesAssumption ==
    \A op \in Tools : \A w \in Writes[op] :
        /\ DOMAIN w = ArgumentsOf(op)
        /\ \A a \in ArgumentsOf(op) :
              /\ IsValue(w[a])
              /\ IsNumber(w[a]) => w[a] \in DOMAIN Spelling

\* validate_public_query_variants
Variants(x) ==
    IF Type(x) = "list" /\ Len(x[2]) <= 2 /\ "" \notin ToSet(x[2]) THEN {x[2]} ELSE {}

\* read_with_options, and LlmWikiService.read, to which a blank query is none
Question(x) == IF Type(x) = "text" /\ SplitText(x[2]) # <<>> THEN <<x[2]>> ELSE <<>>
Sections(x) == LET s == SplitValues(x) IN IF s = <<>> THEN <<>> ELSE <<s>>
OrDefault(chars) == IF chars = <<>> THEN app.chars ELSE chars

-----------------------------------------------------------------------------
(* What each side makes of an argument: the set of what the service may be called with *)

Or(default, x, S) == IF x = Absent THEN {default} ELSE S
OrNull(default, x, S) == IF Empty(x) THEN {default} ELSE S
Clamped(S, a) == {Clamp(n, a) : n \in S}
Drafts(x) == {NetworkIncludeDrafts(b) : b \in Or(FALSE, x, LaxBool(x))}

\* Bodies and query strings are parsed by pydantic, lists of texts by its validators
HttpArgument(a, x) ==
    CASE a = "limit" -> OrNull(app.limit, x, LaxInt(x) \cap InBounds(a))
      [] a = "graphLimit" -> OrNull(app.graphLimit, x, Clamped(LaxInt(x), a))
      [] a = "neighborLimit" -> Or(NeighborLimit, x, Clamped(LaxInt(x), a))
      [] a = "depth" -> Or(1, x, Clamped(LaxInt(x), a))
      [] a = "drafts" -> Drafts(x)
      [] a = "mode" -> Or("lexical", x, OneOf(Modes, x))
      [] a = "direction" -> Or("both", x, OneOf(Directions, x))
      [] a = "fields" -> {OptionalStrings(x)}
      [] a = "snippet" -> OrNull(<<>>, x, Optional(LaxInt(x) \cap InBounds(a)))
      [] a = "score" -> OrNull(<<>>, x, Optional(NotNegative(LaxFloat(x))))
      [] a = "excluded" -> {CollectStrings(x)}
      [] a = "variants" -> Or(<<>>, x, Variants(x))
      [] a = "query" -> {Question(x)}
      [] a = "sections" -> {Sections(x)}
      [] a = "chars" -> OrNull(app.chars, x, Optional(Clamped(LaxInt(x), a)))
      [] a = "links" -> OrNull(<<>>, x, Optional(LaxBool(x)))
      [] a \in {"seeds", "relations"} ->   \* each repetition of the parameter is taken whole
           {CASE Type(x) = "text" -> IF x[2] = "" THEN <<>> ELSE <<x[2]>>
              [] Type(x) = "list" -> NonEmpty(x[2])
              [] OTHER -> <<>>}

\* handle_mcp makes something of almost everything
RpcArgument(a, x) ==
    CASE a = "limit" -> ClampInt(x, a, app.limit)
      [] a = "graphLimit" -> ClampInt(x, a, app.graphLimit)
      [] a = "neighborLimit" -> ClampInt(x, a, NeighborLimit)
      [] a = "depth" -> ClampInt(x, a, 1)
      [] a = "drafts" -> {NetworkIncludeDrafts(BoolArg(x))}
      [] a = "mode" -> IF Falsy(x) THEN {"lexical"} ELSE OneOf(Modes, Fold(x))
      [] a = "direction" -> LET known == OneOf(Directions, Fold(x))
                            IN  IF known = {} THEN {"both"} ELSE known
      [] a = "fields" -> {OptionalStrings(x)}
      [] a = "snippet" -> OptionalClamped(x, a)
      [] a = "score" -> IF Empty(x) \/ x = Text("") THEN {<<>>}
                        ELSE IF Type(x) = "flag" THEN {}
                        ELSE Optional(Finite(LaxFloat(x)))
      [] a \in {"excluded", "seeds", "relations"} -> {CollectStrings(x)}
      [] a = "variants" -> Or(<<>>, x, Variants(x))
      [] a = "query" -> {Question(x)}
      [] a = "sections" -> IF Type(x) \in {"number", "flag", "infinite"} THEN {} ELSE {Sections(x)}
      [] a = "chars" -> {OrDefault(chars) : chars \in OptionalClamped(x, a)}
      [] a = "links" -> {IF Empty(x) THEN <<>> ELSE <<BoolArg(x)>>}

\* The SDK validates against the signatures of the tools, which then parse as above
StreamArgument(a, x) ==
    LET strings == Type(x) \in {"absent", "null", "text", "list"}
    IN  CASE a = "limit" -> Or(app.limit, x, Clamped(LaxInt(x), a))
          [] a = "graphLimit" -> Or(app.graphLimit, x, Clamped(LaxInt(x), a))
          [] a = "neighborLimit" -> Or(NeighborLimit, x, Clamped(LaxInt(x), a))
          [] a = "depth" -> Or(1, x, Clamped(LaxInt(x), a))
          [] a = "drafts" -> Drafts(x)
          [] a = "mode" -> Or("lexical", x, OneOf(Modes, x))
          [] a = "direction" -> Or("both", x, OneOf(Directions, x))
          [] a = "fields" -> IF strings THEN {OptionalStrings(x)} ELSE {}
          [] a = "snippet" -> OrNull(<<>>, x, Optional(Clamped(LaxInt(x), a)))
          [] a = "score" -> OrNull(<<>>, x, Optional(Finite(LaxFloat(x))))
          [] a \in {"excluded", "seeds", "relations"} -> IF strings THEN {CollectStrings(x)} ELSE {}
          [] a = "variants" -> Or(<<>>, x, Variants(x))
          [] a = "query" -> IF Type(x) \in {"absent", "null", "text"} THEN {Question(x)} ELSE {}
          [] a = "sections" -> IF strings THEN {Sections(x)} ELSE {}
          [] a = "chars" -> OrNull(app.chars, x, Optional(Clamped(LaxInt(x), a)))
          [] a = "links" -> OrNull(<<>>, x, Optional(LaxBool(x)))

\* The command line has a service of its own and refuses what is out of bounds
CliArgument(a, x) ==
    CASE a = "limit" -> Or(ContextLimit, x, PyInt(x) \cap InBounds(a))
      [] a = "drafts" -> {FALSE}
      [] a = "mode" -> Or("lexical", x, OneOf(Modes, x))
      [] a = "fields" -> {IF x = Absent THEN <<>> ELSE <<SplitValues(x)>>}
      [] a \in {"snippet", "chars"} -> Or(<<>>, x, Optional(PyInt(x) \cap InBounds(a)))
      [] a = "score" -> Or(<<>>, x, Optional(NotNegative(LaxFloat(x))))
      [] a = "excluded" -> {SplitValues(x)}
      [] a = "variants" -> {<<>>}
      [] a = "query" -> {Question(x)}
      [] a = "sections" -> {Sections(x)}
      [] a = "links" -> Or(<<>>, x, Optional(LaxBool(x)))

\* message:send asks for a context and gives nothing else
A2aArgument(a) ==
    CASE a = "limit" -> {app.limit}
      [] a = "drafts" -> {FALSE}
      [] a = "mode" -> {"lexical"}
      [] OTHER -> {<<>>}

Argument(side, a, x) ==
    CASE side = "http" -> HttpArgument(a, x)
      [] side = "rpc" -> RpcArgument(a, x)
      [] side = "stream" -> StreamArgument(a, x)
      [] side = "cli" -> CliArgument(a, x)
      [] side = "a2a" -> A2aArgument(a)

\* A query string has texts only, and so have options: there a number is its text
TextOnly(side, op) == side = "cli" \/ (side = "http" /\ op \notin Searches)
Sent(side, op, x) ==
    IF TextOnly(side, op) /\ x \in DOMAIN Spelling THEN Text(Spelling[x]) ELSE x

\* What can be written there at all
CanWrite(side, op, a, x) ==
    CASE side = "http" /\ op \notin Searches ->
           /\ x # NoValue
           /\ Type(x) = "list" => a \in {"seeds", "relations", "sections"}
           /\ Type(x) = "flag" => a \in {"drafts", "links"}
      [] side = "cli" ->
           /\ op \notin {"graph", "neighbors"} /\ x # NoValue
           /\ x # Absent => a \notin {"drafts", "variants"}
           /\ Type(x) = "list" => a \in {"fields", "excluded", "sections"}
           /\ a = "links" => Type(x) \in {"absent", "flag"}
           /\ Type(x) = "flag" => a = "links"
      [] side = "a2a" -> op = "context" /\ x = Absent
      [] OTHER -> TRUE

\* The arguments the service is called with, unless one of them is refused
CallsFrom(side, w) ==
    LET parsed == [a \in DOMAIN w.given |->
                      Argument(side, a, Sent(side, w.operation, w.given[a]))]
    IN  IF \E a \in DOMAIN parsed : parsed[a] = {} THEN {}
        ELSE {[a \in DOMAIN parsed |-> CHOOSE v \in parsed[a] : TRUE]}

-----------------------------------------------------------------------------
(* The start of a server *)

\* resolve_int_option_env, then validate_default_limit: the option, or what the environment
\* says, or nothing; and no start when it is no number or out of bounds
ResolvedInt(option, env, a) ==
    LET x == IF option # Absent THEN option ELSE IF env = Text("") THEN Absent ELSE env
    IN  IF x = Absent THEN {<<>>} ELSE Optional(PyInt(x) \cap InBounds(a))
\* split_cli_values, or split_env_values when it leaves nothing
ResolvedNames(option, env) == IF option = {} THEN env ELSE option

\* Mutant: the excluded tools are left out only when none are included
ResolveIncludedFirst(include, exclude) ==
    IF include \cup exclude \subseteq Tools
    THEN {on \in {IF include = {} THEN Tools \ exclude ELSE include} : on # {}} ELSE {}

\* resolve_mcp_tool_selection
ResolveMcpToolSelection(include, exclude) ==
    IF include \cup exclude \subseteq Tools
    THEN {on \in {(IF include = {} THEN Tools ELSE include) \ exclude} : on # {}} ELSE {}

The(default, optional) == IF optional = <<>> THEN default ELSE optional[1]

\* create_app takes what serve has resolved, or what its caller gives
Resolved ==
    LET s == settings
        env == s.way = "serve"
        names(option, inEnv) == IF env THEN ResolvedNames(option, inEnv) ELSE option
        number(option, inEnv, a) == ResolvedInt(option, IF env THEN inEnv ELSE Absent, a)
    IN  {[tools |-> on, limit |-> The(ContextLimit, l), graphLimit |-> The(GraphLimit, g),
          chars |-> c, allowDrafts |-> s.allowDrafts] :
            on \in ResolveMcpToolSelection(names(s.include, s.includeEnv),
                                           names(s.exclude, s.excludeEnv)),
            l \in number(s.limit, s.limitEnv, "limit"),
            g \in number(s.graphLimit, s.graphLimitEnv, "graphLimit"),
            c \in number(s.chars, s.charsEnv, "chars")}

\* mcp_tool_descriptions, with the prefix of the wiki's title
Descriptions(tools, on) ==
    [tool \in tools |-> [title |-> title,
                         names |-> CASE tool = "search" -> {"context"} \cap on
                                     [] tool = "graph" -> {"neighbors"}
                                     [] OTHER -> {}]]

\* Every tool is registered with the stream, and those disabled are removed
StreamTools(on) == Tools \ {tool \in Tools : tool \notin on}

Response(does, calls) == [does |-> does, calls |-> calls]

CallsAtRest ==
    /\ app = Down /\ shown = Down /\ retitles = 0
    /\ wanted = Unasked /\ answers = [side \in Sides |-> Response("nothing", {})]

CallsInit ==
    /\ settings \in Settings /\ title \in Titles \cup {Broken}
    /\ CallsAtRest

\* serve first loads the wiki; create_app does without it
StartServer ==
    /\ app = Down
    /\ IF Resolved = {} \/ (settings.way = "serve" /\ title = Broken)
       THEN app' = Refused /\ UNCHANGED shown
       ELSE \E a \in Resolved : app' = a /\ shown' = Descriptions(StreamTools(a.tools), a.tools)
    /\ UNCHANGED <<settings, title, retitles, wanted, answers>>

Retitle ==
    /\ app # Down /\ retitles < MaxRetitles
    /\ retitles' = retitles + 1
    /\ title' \in (Titles \cup {Broken}) \ {title}
    /\ UNCHANGED <<settings, app, shown, wanted, answers>>

-----------------------------------------------------------------------------
(* One request at all sides *)

Started == app \notin {Down, Refused}

\* handle_mcp and LlmWikiMCPServer.call_tool
IsDisabled(side, op) == side \in {"rpc", "stream"} /\ op \notin app.tools

\* The sides where the request can be written are asked, each for itself
Ask ==
    /\ Started /\ wanted = Unasked
    /\ wanted' \in UNION {[operation : {op}, given : Writes[op]] : op \in Tools}
    /\ answers' = [side \in Sides |->
                     IF \E a \in DOMAIN wanted'.given :
                          ~CanWrite(side, wanted'.operation, a, wanted'.given[a])
                     THEN Response("nothing", {})
                     ELSE IF IsDisabled(side, wanted'.operation) THEN Response("refuses", {})
                     ELSE Response("parses", CallsFrom(side, wanted'))]
    /\ UNCHANGED <<settings, app, title, shown, retitles>>

CallsNext == StartServer \/ Retitle \/ Ask

CallsSpec == CallsInit /\ [][CallsNext]_callVars

-----------------------------------------------------------------------------
(* Properties *)

\* Requests that mean one thing here and another there: "t" for true, which /mcp takes for
\* false; "2.0" for an integer, for which /mcp takes the default; a number for a text, which
\* /mcp ignores and a query string or an option cannot tell from its text; commas, blanks and
\* repetitions in the lists of the neighbourhood, which a query string keeps; and the items of
\* lists, which are split on the command line only
Ambiguous(w, sides) ==
    \/ \E a \in Numeric \cap DOMAIN w.given :
          "rpc" \in sides /\ w.given[a] \in {Text(t) : t \in DOMAIN LaxTexts \ DOMAIN IntTexts}
    \/ \E a \in Textual \cap DOMAIN w.given :
          /\ IsNumber(w.given[a])
          /\ \E s, t \in sides : TextOnly(s, w.operation) /\ ~TextOnly(t, w.operation)
    \/ \E a \in {"drafts", "links"} \cap DOMAIN w.given :
          "rpc" \in sides /\ w.given[a] \in {Text(t) : t \in YesTexts \ TrueTexts}
    \/ \E a \in {"seeds", "relations"} \cap DOMAIN w.given :
          /\ "http" \in sides
          /\ LET x == w.given[a]
             IN  \/ Type(x) = "text" /\ x[2] # "" /\ SplitText(x[2]) # <<x[2]>>
                 \/ Type(x) = "list" /\ Deduplicated(x[2]) # NonEmpty(x[2])
    \/ \E a \in {"fields", "excluded"} \cap DOMAIN w.given :
          /\ "cli" \in sides /\ Type(w.given[a]) = "list"
          /\ \E t \in ToSet(w.given[a][2]) : SplitText(t) # <<t>>

WithoutOptions == app.limit = ContextLimit /\ app.chars = <<>>

\* "HTTP, MCP JSON-RPC, and MCP Streamable HTTP expose the same operation"
\* (specs/ckg-graph-neighborhood, REQ-003): whatever a client writes, the sides that do not
\* refuse it call the service alike, with numbers within the documented bounds, the defaults
\* the operator has set, and drafts only where those are allowed.
CallsAgree ==
    Started =>
        \A s, t \in {side \in Sides : answers[side].calls # {}} :
            /\ ~Ambiguous(wanted, {s, t}) /\ ("cli" \in {s, t} => WithoutOptions)
                 => answers[s].calls = answers[t].calls
            /\ \A call \in answers[s].calls :
                /\ call.drafts => app.allowDrafts
                /\ \A a \in DOMAIN call \cap {"limit", "graphLimit", "neighborLimit", "depth"} :
                      call[a] \in InBounds(a)
                /\ \A a \in DOMAIN call \cap {"snippet", "chars"} :
                      call[a] \in Optional(InBounds(a)) \cup {<<>>}

\* Tool selection limits "the tools listed and callable on both /mcp/stream and /mcp" (README):
\* a tool that is listed can be called there and none that is not, the operator's last word
\* counts, the two lists agree until the wiki changes, and a description names no tool that
\* is not there (but for that of the graph).
ToolsAsListed ==
    Started =>
        /\ DOMAIN shown # {}
        /\ \A side \in {"rpc", "stream"} : answers[side].does # "nothing" =>
              (answers[side].does = "refuses" <=> wanted.operation \notin DOMAIN shown)
        /\ LET asked(option, env) ==
                  IF settings.way = "serve" /\ option = {} THEN env ELSE option
           IN  /\ DOMAIN shown \cap asked(settings.exclude, settings.excludeEnv) = {}
               /\ asked(settings.include, settings.includeEnv) # {} =>
                    DOMAIN shown \subseteq asked(settings.include, settings.includeEnv)
        /\ retitles = 0 => shown = Descriptions(app.tools, app.tools)
        /\ \A tool \in DOMAIN shown \ {"graph"} : shown[tool].names \subseteq DOMAIN shown
=============================================================================
