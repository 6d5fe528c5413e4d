------------------------------ MODULE MCProxy ------------------------------
(***************************************************************************)
(* An instance of Proxy with at most two Bind parameters.                   *)
(***************************************************************************)
EXTENDS Proxy

MCIdentity == <<82>>

\* NULL, an empty value, and values that a length or a count may be mistaken for.
Vals == {Value(-1, <<>>), Value(0, <<>>), Value(1, <<65>>)}
FormatLists(n) == {<<>>, <<1>>} \cup (IF n = 2 THEN {<<0, 1>>, <<1, 0>>} ELSE {})

Binds ==
    UNION {{[formats |-> fs, values |-> vs, results |-> rs] :
               fs \in FormatLists(n), vs \in [1 .. n -> Vals],
               rs \in IF n = 2 THEN {<<1>>} ELSE {<<>>}} :
           n \in 0 .. 2}

Body(b) == send_bind(<<>>, <<112>>, b.formats, b.values, b.results)
Wanted(b) ==
    [portal |-> <<>>, statement |-> <<112>>, formats |-> b.formats,
     params |-> [k \in DOMAIN b.values |->
                    [length |-> b.values[k].length, data |-> b.values[k].data,
                     format |-> CASE b.formats = <<>> -> 0
                                  [] Len(b.formats) = 1 -> b.formats[1]
                                  [] OTHER -> b.formats[k]]],
     result_formats |-> b.results]

Ask(body, seen, slot, as_binary, skip, wanted) ==
    [body |-> body, seen |-> seen, slot |-> slot, as_binary |-> as_binary, skip |-> skip,
     wanted |-> wanted]

\* What is left in the place of the body when a Describe, an Execute and a Sync
\* have followed it in its chunk, and each has been moved to the front of the
\* input buffer in turn: five bytes of header, then the place of the body.
Followers ==
    <<<<68, 0, 0, 0, 6, 80, 0>>, <<69, 0, 0, 0, 9, 0, 0, 0, 0, 0>>, <<83, 0, 0, 0, 4>>>>
Moved(buffer, rest) ==
    [k \in DOMAIN buffer |-> IF k <= Len(rest) THEN rest[k] ELSE buffer[k]]
Overwritten(body) ==
    LET rest(k) == FlattenSeq(SubSeq(Followers, k, Len(Followers)))
        buffer == <<66>> \o wr32_be(Len(body) + 4) \o body \o rest(1)
    IN  Slice(Moved(Moved(Moved(buffer, rest(1)), rest(2)), rest(3)), 5, Len(body))

LegalRequests ==
    {Ask(Body(b), Body(b), slot, as_binary, slot = 0, <<Wanted(b)>>) :
        b \in Binds, slot \in 0 .. 1, as_binary \in BOOLEAN}
OverwrittenRequests ==
    {Ask(Body(b), Overwritten(Body(b)), slot, FALSE, FALSE, <<Wanted(b)>>) :
        b \in Binds, slot \in 0 .. 1}

\* Three parameters, three formats, a negative length other than -1, and every
\* torn body of a Bind.
Beyond ==
    {Body([formats |-> fs, values |-> vs, results |-> <<1>>]) :
        fs \in {<<>>, <<0, 1, 0>>},
        vs \in {<<Value(1, <<65>>), Value(-1, <<>>), Value(2, <<0, 1>>)>>,
                <<Value(0, <<>>), Value(2, <<65, 66>>), Value(-7, <<>>)>>,
                <<Value(-7, <<>>), Value(1, <<0>>)>>}}
Torn ==
    LET whole == Body([formats |-> <<1>>, values |-> <<Value(2, <<65, 66>>), Value(1, <<67>>)>>,
                       results |-> <<1>>])
    IN  {SubSeq(whole, 1, n) : n \in 0 .. Len(whole) - 1}
IllegalRequests ==
    {Ask(body, Overwritten(body), slot, FALSE, FALSE, <<>>) :
        body \in Beyond \cup Torn, slot \in 1 .. 2}

MCRequests == LegalRequests \cup OverwrittenRequests \cup IllegalRequests

=============================================================================
