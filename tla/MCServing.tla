------------------------------ MODULE MCServing ------------------------------
(***************************************************************************)
(* A request on its way through the surfaces, the headers and the body of  *)
(* one in the middleware of the stream, or the start of a server and what  *)
(* its sides make of the arguments: each is checked from its own initial   *)
(* states, and the others stand still meanwhile.                           *)
(***************************************************************************)
EXTENDS Serving, McpStream, SurfaceCalls, TLC
CONSTANTS one, two, r, a, b, none, current, older, unknown, plain, accented, wrapped

MCRequests == {r}
MCContents == {a, b}
MCNames == {plain, accented, wrapped}

-----------------------------------------------------------------------------
(* The arguments of operations, scaled down *)

MCBounds == [limit |-> <<1, 3>>, graphLimit |-> <<1, 5>>, neighborLimit |-> <<1, 4>>,
             depth |-> <<0, 2>>, snippet |-> <<0, 3>>, chars |-> <<2, 6>>]
MCIntTexts == "-1" :> -1 @@ "0" :> 0 @@ "1" :> 1 @@ "2" :> 2 @@ "9" :> 9
MCLaxTexts == MCIntTexts @@ "2.0" :> 2
MCFloatTexts == [t \in DOMAIN MCLaxTexts |-> 2 * MCLaxTexts[t]] @@ "2.5" :> 5 @@ "inf" :> 1000
MCSpelling == Number(-1) :> "-1" @@ Number(0) :> "0" @@ Number(1) :> "1" @@ Number(2) :> "2"
                @@ Number(9) :> "9" @@ Fraction(2) :> "2.5" @@ Infinite :> "inf"
MCParts == "" :> <<>> @@ " " :> <<>> @@ "," :> <<>> @@ "a,b" :> <<"a", "b">>
MCLowerCase == "HYBRID" :> "hybrid" @@ "IN" :> "in"

Numbers == {Number(-1), Number(0), Number(2), Number(9), Fraction(2), Infinite, Flag(TRUE),
            Text("2"), Text("2.0"), Text("9"), Text("word"), Text(""), Texts(<<>>), NoValue}
Switches == {Flag(TRUE), Flag(FALSE), Number(1), Number(2), Text("true"), Text("t"), Text("false"),
             Text("word"), Texts(<<>>), NoValue}
Strings == {Text("a"), Text("a,b"), Text(""), Text(","), Texts(<<>>), Texts(<<"a", "b">>),
            Texts(<<"a", "a", "">>),
            Texts(<<"a,b", "">>), Number(2), NoValue}
MCValues(arg) ==
    CASE arg \in {"limit", "graphLimit", "neighborLimit", "depth", "snippet", "chars"} -> Numbers
      [] arg = "score" -> Numbers \cup {Text("2.5"), Text("inf")}
      [] arg \in {"drafts", "links"} -> Switches
      [] arg = "mode" -> {Text("vector"), Text("HYBRID"), Text("word"), Text(""), Number(0), NoValue}
      [] arg = "direction" -> {Text("in"), Text("IN"), Text("word"), Text(""), NoValue}
      [] arg = "query" -> {Text("a"), Text(" "), Number(2), NoValue}
      [] arg = "variants" -> {Text("a"), Texts(<<>>), Texts(<<"a", "b">>), Texts(<<"a", "">>),
                              Texts(<<"a", "b", "c">>), NoValue}
      [] OTHER -> Strings
\* The arguments are parsed each for itself: one is given at a time
MCWrites ==
    [op \in Tools |->
        LET nothing == [arg \in ArgumentsOf(op) |-> Absent]
        IN  {nothing} \cup UNION {{[nothing EXCEPT ![arg] = x] : x \in MCValues(arg)} :
                                   arg \in ArgumentsOf(op)}]

\* Options and environment of the selection of tools, or of the numbers
MCSettings ==
    LET some == [way : {"serve", "python"}, allowDrafts : {TRUE},
                 include : {{}, {"context", "search"}, {"graph", "word"}},
                 exclude : {{}, {"context"}, {"context", "search"}},
                 includeEnv : {{}, {"search", "graph"}}, excludeEnv : {{}, {"search"}},
                 limit : {Absent}, limitEnv : {Absent}, graphLimit : {Absent},
                 graphLimitEnv : {Absent}, chars : {Absent}, charsEnv : {Absent}]
        numbers == [way : {"serve", "python"}, allowDrafts : BOOLEAN,
                    include : {{}}, exclude : {{}}, includeEnv : {{}}, excludeEnv : {{}},
                    limit : {Absent, Number(1), Number(9)},
                    limitEnv : {Absent, Text(""), Text("9"), Text("word")},
                    graphLimit : {Absent}, graphLimitEnv : {Absent, Text("2")},
                    chars : {Absent, Number(4)}, charsEnv : {Absent}]
    IN  some \cup numbers

-----------------------------------------------------------------------------
(* The machines, and each of them at rest *)

NothingServed == judge = "off" /\ content = a
NoRequest == passage = "none" /\ request = none /\ got = none
NoServer == settings = Unasked /\ title = one

MCInit ==
    \/ ServeInit /\ NoRequest /\ CallsAtRest /\ NoServer
    \/ ServeInit /\ NothingServed /\ McpInit /\ CallsAtRest /\ NoServer
    \/ ServeInit /\ NothingServed /\ NoRequest /\ CallsInit

MCNext ==
    \/ passage = "none" /\ settings = Unasked /\ ServeNext /\ UNCHANGED <<mcpVars, callVars>>
    \/ McpNext /\ UNCHANGED <<serveVars, callVars>>
    \/ settings # Unasked /\ CallsNext /\ UNCHANGED <<serveVars, mcpVars>>

MCSpec == MCInit /\ [][MCNext]_<<serveVars, mcpVars, callVars>> /\ Fairness
=============================================================================
