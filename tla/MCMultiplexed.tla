---------------------------- MODULE MCMultiplexed ----------------------------
(***************************************************************************)
(* HTTP/2 and HTTP/3 connections, the QUIC endpoint and the shutdown       *)
(* tokens, one per behaviour: part says which one acts, the others rest in *)
(* a state where they have nothing left to do.  The streams of a           *)
(* connection are interchangeable, so a plan names what the two of them    *)
(* ask for, in one order.                                                  *)
(***************************************************************************)
EXTENDS ShutdownTokens, Http2Connection, Http3Adapter, TLC

CONSTANTS s1, s2, control, completion, acceptLoop, relay, connection_driver

VARIABLE part

(***************************************************************************)
(* A server token awaited by the accept loop and a relay, a connection     *)
(* token awaited by a driver, and two tasks that may request shutdown of   *)
(* either, also at the same time.                                          *)
(***************************************************************************)
MCTokens == {"server", "connection"}
MCServerTokens == {"server"}
MCCallers == {control, completion}
MCWaiters == {acceptLoop, relay, connection_driver}
MCWaitsOn == [w \in MCWaiters |-> IF w = connection_driver THEN "connection" ELSE "server"]

(***************************************************************************)
(* What the streams ask for                                                *)
(***************************************************************************)
MCStreams == {s1, s2}

\* Neither Next nor a safety property tells one stream from another.
StreamSymmetry == Permutations(MCStreams)

Ask2(policy, end_stream, connect) ==
    [policy |-> policy, end_stream |-> end_stream, connect |-> connect, flaws |-> {},
     declared |-> 1, expect |-> "none"]

Streamed2 == Ask2("stream", FALSE, FALSE)
Buffered2 == Ask2("buffer", FALSE, FALSE)
Bodyless2 == Ask2("reject", TRUE, FALSE)
Connect2 == Ask2("reject", TRUE, TRUE)
Flawed2 == {[Bodyless2 EXCEPT !.flaws = {"head"}], [Bodyless2 EXCEPT !.flaws = {"framing"}],
            [Bodyless2 EXCEPT !.expect = "unknown"], [Bodyless2 EXCEPT !.expect = "100-continue"],
            [Streamed2 EXCEPT !.declared = 2], [Bodyless2 EXCEPT !.end_stream = FALSE]}
MCH2Requests == {Streamed2, Buffered2, Bodyless2, Connect2} \cup Flawed2

\* Every refusal looks the same to the connection: one of them meets the others.
Plans2 == { <<Streamed2, Ask2("reject", FALSE, FALSE)>>, <<Buffered2, Bodyless2>>,
            <<Connect2, Connect2>> } \cup {<<flawed, flawed>> : flawed \in Flawed2}

Ask3(method, policy, lengths, data, ends) ==
    [method |-> method, flaws |-> {}, lengths |-> lengths, policy |-> policy,
     protocol |-> "none", authority |-> TRUE, data |-> data, ends |-> ends]

Streamed3 == Ask3("GET", "stream", <<>>, 1, TRUE)
Rejected3 == Ask3("POST", "reject", <<>>, 1, TRUE)
Buffered3 == Ask3("POST", "buffer", << <<2>> >>, 1, FALSE)
Connect3 == Ask3("CONNECT", "stream", <<>>, 1, FALSE)
Flawed3 == [Streamed3 EXCEPT !.flaws = {"scheme", "long_target"}]
MCH3Requests == {Streamed3, Rejected3, Buffered3, Connect3, Flawed3}

MCH3Responses ==
    { [body |-> "stream", len |-> 1, declared |-> 2],
      [body |-> "file", len |-> 1, declared |-> 1] }

Plans3 == { <<Rejected3, Flawed3>>, <<Streamed3, Flawed3>>, <<Buffered3, Flawed3>>, <<Connect3, Connect3>> }

\* What must eventually happen is asked of fewer requests.
LiveH2Requests == {Bodyless2}
LiveH3Requests == {Streamed3, Connect3}
LiveH3Responses == {[body |-> "stream", len |-> 1, declared |-> 2]}

(***************************************************************************)
(* One part at a time                                                      *)
(***************************************************************************)
TokensRest ==
    /\ flag = [t \in Tokens |-> TRUE] /\ notifying = [c \in Callers |-> "none"]
    /\ wpc = [w \in Waiters |-> "returned"] /\ signalled = [w \in Waiters |-> FALSE]

H2Rest ==
    /\ driver = "returned" /\ outcome = "Normal" /\ snap = NoSnap /\ busy = {}
    /\ peer = "closed" /\ total = FALSE /\ quiet = FALSE /\ stop = FALSE /\ wake = FALSE
    /\ in_flight = 0 /\ outstanding = 0 /\ deferred = 0 /\ completed = 0
    /\ body_timeout = FALSE /\ drain = FALSE
    /\ ask = [s \in H2Streams |-> Bodyless2]
    /\ stream = [s \in H2Streams |-> "none"] /\ h2body = [s \in H2Streams |-> "none"]
    /\ told = [s \in H2Streams |-> NotTold]
    /\ known = {} /\ stalled = {} /\ tracking = {}
    /\ tunnel = [s \in H2Streams |-> "none"]

H3Rest == H3Init /\ req = [s \in Streams |-> Streamed3]

H2Starts == H2Init /\ <<ask[s1], ask[s2]>> \in Plans2
H3Starts == H3Init /\ <<req[s1], req[s2]>> \in Plans3

MCInit ==
    \/ part = "h2" /\ TokensRest /\ H2Starts /\ H3Rest /\ EndpointInit
    \/ part = "h3" /\ TokensRest /\ H2Rest /\ H3Starts /\ EndpointInit
    \/ part = "endpoint" /\ TokensRest /\ H2Rest /\ H3Rest /\ EndpointInit

LiveInit ==
    \/ part = "tokens" /\ Init /\ H2Rest /\ H3Rest /\ EndpointInit
    \/ part = "h2" /\ TokensRest /\ H2Init /\ H3Rest /\ EndpointInit
    \/ part = "h3" /\ TokensRest /\ H2Rest /\ H3Init /\ EndpointInit
    \/ part = "endpoint" /\ TokensRest /\ H2Rest /\ H3Rest /\ EndpointInit

MCNext ==
    \/ part = "tokens" /\ Next /\ UNCHANGED <<part, h2Vars, h3Vars, h3eVars>>
    \/ part = "h2" /\ H2Next /\ UNCHANGED <<part, vars, h3Vars, h3eVars>>
    \/ part = "h3" /\ H3Next /\ UNCHANGED <<part, vars, h2Vars, h3eVars>>
    \/ part = "endpoint" /\ EndpointNext /\ UNCHANGED <<part, vars, h2Vars, h3Vars>>

MCSpec == MCInit /\ [][MCNext]_<<part, vars, h2Vars, h3Vars, h3eVars>>

LiveSpec ==
    /\ LiveInit /\ [][MCNext]_<<part, vars, h2Vars, h3Vars, h3eVars>>
    /\ Fairness /\ H2Liveness /\ H3Fairness /\ EndpointFairness

(* The HTTP/2 driver returns, an HTTP/3 connection drains and its          *)
(* cancelled tunnels end, and the QUIC endpoint empties after shutdown     *)
(* (driver.rs, adapter.rs, endpoint.rs): see the three modules.            *)
ConnectionsSettle == H2Settles /\ H3Settles /\ EndpointEmpties
==============================================================================
