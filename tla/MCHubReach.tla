------------------------------- MODULE MCHubReach -------------------------------
(***************************************************************************)
(* How a Hub is found and how its silence is noticed: a behaviour is one of *)
(* MdnsAnswer, a lookup, or of LinkTimers, a link.  They share no state.    *)
(***************************************************************************)
EXTENDS MdnsAnswer, LinkTimers

VARIABLE part

ASSUME TimersAreShort == TimersAssumption
ASSUME HubIsPrompt == PromptAssumption

\* "a.l", with a final dot and in capitals; "b.a.l", as long as a host may be;
\* a longer one, one without the suffix, and two with an empty label.
MCSuffix == <<46, 108>>
MCRawHosts == {<<97, 46, 108>>, <<65, 46, 76, 46>>, <<98, 46, 97, 46, 108>>,
               <<97, 97, 46, 97, 46, 108>>, <<97, 108>>, <<46, 46, 108>>,
               <<97, 46, 46, 46, 108>>, <<46, 108>>}

\* Short datagrams of any bytes: labels, pointers, a letter, an address.
Bytes == {0, 1, 2, 97, 192}
Short == UNION {[1 .. n -> Bytes] : n \in 0 .. 5}

\* Names: whole, in capitals, compressed, of one dotted label, too long, and
\* with pointers back to the header, to the first entry and into itself.
Names == {<<0>>, <<1, 97, 1, 108, 0>>, <<1, 65, 1, 76, 0>>, <<3, 97, 46, 108, 0>>,
          <<1, 98, 192, 1>>, <<1, 97, 192, 3>>, <<192, 1>>, <<192, 3>>, <<1, 97, 192, 0>>,
          <<1, 98, 1, 97, 1, 108, 1, 97, 0>>, <<1, 97, 1, 108>>}
Questions == {n \o <<kTypeA>> : n \in Names}
Records == {n \o f : n \in Names, f \in {<<kTypeA, 1, 7>>, <<kTypeA, 1, 8>>, <<2, 1, 7>>,
                                         <<kTypeA, 0>>, <<kTypeA, 2, 7, 7>>, <<kTypeA, 1>>}}
Messages(bytes, q, r) ==
    {[bytes |-> <<0>> \o b, response |-> TRUE, questions |-> q, records |-> r] : b \in bytes}

MCDatagrams ==
    UNION {Messages(Short, q, r) : q \in 0 .. 1, r \in {1}}
    \cup Messages(Records, 0, 1)
    \cup Messages({e \o f : e \in Questions, f \in Records}, 1, 1)
    \cup Messages({e \o f : e \in Records, f \in Records}, 0, 2)
    \cup {[bytes |-> <<>>, response |-> TRUE, questions |-> 0, records |-> 0]}
    \cup [bytes : {<<0, 1, 97, 1, 108, 0, 1, 1, 7>>}, response : BOOLEAN, questions : 0 .. 2,
          records : 0 .. 3]

MCInit ==
    /\ Init /\ TimersInit
    /\ part \in {"lookup", "link"}
    /\ part = "lookup" => clock = 0 /\ eventFd
    /\ handlers = eventFd
MCNext ==
    \/ part = "lookup" /\ Next /\ UNCHANGED <<part, timerVars>>
    \/ part = "link" /\ TimersNext /\ UNCHANGED <<part, vars>>
MCSpec == MCInit /\ [][MCNext]_<<part, vars, timerVars>>
================================================================================
