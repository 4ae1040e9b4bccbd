----------------------------- MODULE MappingSpec -----------------------------
(***************************************************************************)
(* The values of -local-tcp, -local-udp, -remote-tcp and -remote-udp:      *)
(* parseMappingString and buildMapping of src/types/mapping.go, against    *)
(* the grammar that its comments and most of the flags' help give, and     *)
(* against two forms of the README and the help that it refuses.  A value  *)
(* is composed chunk by chunk and then handed to Set, so that a run        *)
(* reaches every short value, well formed or not.                          *)
(*                                                                         *)
(* A token is the text between two colons.  Its record says whether it     *)
(* starts with "[" and whether it ends with "]", and what is between; an   *)
(* address is the sequence of the tokens it is spread over.                *)
(***************************************************************************)
EXTENDS Integers, Sequences, SequencesExt

CONSTANT MaxChunks  \* bound on the chunks of a value

ASSUME MappingSpecAssumption == MaxChunks \in Nat

VARIABLES
    value,      \* the flag's value, split at its colons
    chunks,     \* how many chunks have been appended
    isLocal,    \* a local mapping, or a remote one
    result      \* what Set appended: {} before and after an error

vars == <<value, chunks, isLocal, result>>

Token(body) == [open |-> FALSE, body |-> body, close |-> FALSE]
Bare(s) == [i \in 1..Len(s) |-> Token(s[i])]
Opened(s) == [Bare(s) EXCEPT ![1].open = TRUE]
Closed(s) == [Bare(s) EXCEPT ![Len(s)].close = TRUE]
Bracketed(s) == [Opened(s) EXCEPT ![Len(s)].close = TRUE]

\* "a::1", "::ffff:1.2.3.4" and "1.2.3.4"; "1" is a port as well as a group.
V6     == <<"a", "", "1">>
Mapped == <<"", "", "ffff", "1.2.3.4">>
V4     == <<"1.2.3.4">>
Empty  == <<"">>

Chunks ==
    {Bare(<<p>>) : p \in {"0", "1", "65535", "65536"}}
        \cup {Bare(Empty), Bare(<<"host">>), Bare(V4), Bracketed(V4)}
        \cup {Bracketed(V6), Bare(V6), Opened(V6), Closed(V6), Bracketed(Mapped)}

-----------------------------------------------------------------------------
(* The libraries.  A conversion that may fail returns the set of its       *)
(* result: a singleton, or the empty set for an error.                     *)

Numerals == [p \in {"0", "1", "65535", "65536"} |->
                CASE p = "0" -> 0 [] p = "1" -> 1 [] p = "65535" -> 65535 [] OTHER -> 65536]

\* strconv.Atoi
Atoi(t) == {Numerals[p] : p \in {x \in DOMAIN Numerals : t = Token(x)}}

\* net.SplitHostPort of t ":" u, as far as the host is concerned.
SplitHost(t, u) ==
    IF t.open = t.close /\ ~u.open /\ ~u.close THEN {<<Token(t.body)>>} ELSE {}

Group(t) == t \in {Token(g) : g \in {"0", "1", "a", "ffff"}}

\* An IPv6 address: one "::", hexadecimal groups, at the end maybe an IPv4 address.
IsV6(a) ==
    \E i \in 2..(Len(a) - 1) :
        /\ a[i] = Token("")
        /\ Len(a) <= 8
        /\ \A j \in 1..Len(a) \ {i} :
              \/ Group(a[j])
              \/ a[j] = Token("") /\ (<<j, i>> = <<1, 2>> \/ <<j, i>> = <<Len(a), Len(a) - 1>>)
              \/ a[j] = Token(V4[1]) /\ j = Len(a)

\* net.ParseIP(a) # nil, and then To4() # nil
ParseIP(a) == a = Bare(V4) \/ IsV6(a)
To4(a) == a \in {Bare(V4), Bare(Mapped)}

-----------------------------------------------------------------------------
(* parseMappingString.                                                     *)

Fields(fa, fp, sa, sp) ==
    [firstAddress |-> fa, firstPort |-> fp, secondAddress |-> sa, secondPort |-> sp]

NoAddress == Bare(Empty)

\* Mutant: the forward walk stops at the first "[" of the value.
CutAddressForward(tokens) ==
    LET n == Len(tokens)
        opens == {i \in 1..n : tokens[i].open}
        i == CHOOSE x \in opens : \A y \in opens : x <= y
    IN  IF ~tokens[n].close THEN <<SubSeq(tokens, n, n), SubSeq(tokens, 1, n - 1)>>
        ELSE IF opens = {} THEN <<NoAddress, tokens>>
        ELSE <<[j \in 1..(n - i + 1) |-> [tokens[i + j - 1] EXCEPT
                   !.open = j # 1 /\ @, !.close = j # n - i + 1 /\ @]],
               SubSeq(tokens, 1, i - 1)>>

\* The address at the end of a list of tokens and the tokens before it.  Behind
\* a "]" the walk goes back to the last "[", whose absence is not an error.
CutAddress(tokens) ==
    LET n == Len(tokens)
        opens == {i \in 1..n : tokens[i].open}
        i == CHOOSE x \in opens : \A y \in opens : y <= x
    IN  IF ~tokens[n].close THEN <<SubSeq(tokens, n, n), SubSeq(tokens, 1, n - 1)>>
        ELSE IF opens = {} THEN <<NoAddress, tokens>>
        ELSE <<[j \in 1..(n - i + 1) |-> [tokens[i + j - 1] EXCEPT
                   !.open = j # 1 /\ @, !.close = j # n - i + 1 /\ @]],
               SubSeq(tokens, 1, i - 1)>>

\* More than four tokens: read from the end, and what is left over is ignored.
ParseLong(v) ==
    LET second == CutAddress(Front(v))
        rest   == second[2]
        first  == IF Len(rest) <= 1 THEN NoAddress ELSE CutAddress(Front(rest))[1]
    IN  IF rest = <<>> THEN {}
        ELSE {Fields(first, p, second[1], q) : p \in Atoi(Last(rest)), q \in Atoi(Last(v))}

ParseTokens(v) ==
    CASE Len(v) = 1 -> {Fields(NoAddress, p, NoAddress, p) : p \in Atoi(v[1])}
      [] Len(v) = 2 -> {Fields(NoAddress, p, NoAddress, q) : p \in Atoi(v[1]), q \in Atoi(v[2])}
      [] Len(v) = 3 -> {Fields(NoAddress, p, a, q) :
                           p \in Atoi(v[1]), a \in SplitHost(v[2], v[3]), q \in Atoi(v[3])}
      [] Len(v) = 4 -> {Fields(a, p, b, q) :
                           a \in SplitHost(v[1], v[2]), p \in Atoi(v[2]),
                           b \in SplitHost(v[3], v[4]), q \in Atoi(v[4])}
      [] OTHER -> ParseLong(v)

\* Mutant: only the second port is checked.
parseMappingStringHalf(v) == {f \in ParseTokens(v) : f.secondPort \in 1..65535}

parseMappingString(v) ==
    {f \in ParseTokens(v) : f.firstPort \in 1..65535 /\ f.secondPort \in 1..65535}

-----------------------------------------------------------------------------
(* buildMapping and Set.                                                   *)

Loopback == Bare(<<"", "", "1">>)   \* net.IPv6loopback
AnyIP == <<>>             \* a nil IP: every address

\* The addresses a mapping of this direction may name.
Allowed(f, local) ==
    /\ IF local THEN ParseIP(f.secondAddress) /\ ~To4(f.secondAddress)
                ELSE f.firstAddress = NoAddress
    /\ f.firstAddress = NoAddress \/ ParseIP(f.firstAddress)
    /\ f.secondAddress = NoAddress \/ ParseIP(f.secondAddress)

buildMapping(v, local) ==
    {[listenIP   |-> IF f.firstAddress = NoAddress THEN AnyIP ELSE f.firstAddress,
      listenPort |-> f.firstPort,
      mappedIP   |-> IF f.secondAddress = NoAddress THEN Loopback ELSE f.secondAddress,
      mappedPort |-> f.secondPort] : f \in {x \in parseMappingString(v) : Allowed(x, local)}}

Init ==
    /\ value = <<>> /\ chunks = 0
    /\ isLocal \in BOOLEAN
    /\ result = {}

Append1(c) ==
    /\ result = {} /\ chunks < MaxChunks
    /\ value' = value \o c
    /\ chunks' = chunks + 1
    /\ UNCHANGED <<isLocal, result>>

Set ==
    /\ value # <<>>
    /\ result' = buildMapping(value, isLocal)
    /\ UNCHANGED <<value, chunks, isLocal>>

Next == (\E c \in Chunks : Append1(c)) \/ Set

Spec == Init /\ [][Next]_vars

-----------------------------------------------------------------------------
(* The grammar of the parser's comments and the flags' help.               *)

Ports == {"0", "1", "65535", "65536"}

\* How an address may be written: IPv6 in brackets, IPv4 with or without.
Written(a) ==
    CASE a \in {V6, Mapped} -> {Bracketed(a)}
      [] a = V4 -> {Bare(a), Bracketed(a)}
      [] OTHER  -> {Bare(a)}

\* <port>, <port>:<port>, <port>:<address>:<port>, <address>:<port>:<address>:<port>
Texts(s) ==
    LET p == <<Token(s.fp)>>
        q == <<Token(s.sp)>>
        seconds == {p \o w \o q : w \in Written(s.second)}
    IN  UNION {IF s.first = Empty /\ s.second = Empty /\ s.fp = s.sp THEN {p} ELSE {},
               IF s.first = Empty /\ s.second = Empty THEN {p \o q} ELSE {},
               IF s.first = Empty THEN seconds ELSE {},
               {w \o t : w \in Written(s.first), t \in seconds}}

Specs == [first : {Empty, V4, V6, Mapped}, fp : Ports,
          second : {Empty, V4, V6, Mapped}, sp : Ports]

AllTexts == UNION {Texts(s) : s \in Specs}

Valid(s, local) ==
    /\ {s.fp, s.sp} \subseteq {"1", "65535"}
    /\ IF local THEN s.second = V6 ELSE s.first = Empty

Meaning(s) ==
    [listenIP   |-> IF s.first = Empty THEN AnyIP ELSE Bare(s.first),
     listenPort |-> Numerals[s.fp],
     mappedIP   |-> IF s.second = Empty THEN Loopback ELSE Bare(s.second),
     mappedPort |-> Numerals[s.sp]]

\* Two more forms that the documentation uses: the help of -local-udp (main.go:50) has
\* "127.0.0.1:[a:b:c:d]:22", without a first port; the README (README.md:115, 122) and
\* mod/yggstack/config.go:109 have "127.0.0.1:8080:<remote-yggdrasil-ipv6>:8080", the
\* address without brackets.
HelpTexts   == {w \o Bracketed(V6) \o <<Token(q)>> : w \in Written(V4), q \in Ports}
ReadmeTexts == {w \o <<Token(p)>> \o Bare(V6) \o <<Token(q)>> :
                    w \in Written(V4), p, q \in Ports}

\* Every form that the documentation uses.  A value of one of the four forms of the
\* parser's comments (mapping.go:17, 27, 40 and 59), with every IPv6 address in
\* brackets as in the help of -local-tcp (main.go:49), is taken for what it says:
\* accepted with these addresses and ports exactly if they are in range and fit the
\* direction of the mapping, whatever the number of its colons.  The two other forms
\* the code does not read, against their documentation; it refuses them and does not
\* take them for anything else.
DocumentedForms ==
    /\ value \in AllTexts =>
          \A s \in Specs : value \in Texts(s) =>
              buildMapping(value, isLocal) = {Meaning(m) : m \in {x \in {s} : Valid(x, isLocal)}}
    /\ value \in HelpTexts \cup ReadmeTexts => buildMapping(value, isLocal) = {}

\* Nothing is accepted that is not written out at the end of the value: the
\* parser may ignore what comes before, it never invents or mixes up a part.
AcceptedIsWritten ==
    \A r \in result :
        \E s \in Specs : /\ Valid(s, isLocal) /\ r = Meaning(s)
                         /\ \E t \in Texts(s) : IsSuffix(t, value)

=============================================================================
