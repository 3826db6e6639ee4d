-------------------------- MODULE MCAtemTransport ---------------------------
(* UdpProtocol across sessions and inside one: AtemSession and AtemSend, each *)
(* in behaviours of its own.                                                  *)
EXTENDS AtemSession, AtemSend

\* What the theorems about the send path and the sessions ask of the constants
ASSUME SendNumbersFit == NumbersFit /\ BufferFits
ASSUME KeepsUp == ~Lags

VARIABLE part

TransportInit == Init /\ SendInit /\ part \in {"session", "send"}
TransportNext ==
    /\ UNCHANGED part
    /\ \/ part = "session" /\ Next /\ UNCHANGED wVars
       \/ part = "send" /\ SendNext /\ UNCHANGED sVars
TransportSpec ==
    /\ TransportInit /\ [][TransportNext]_<<sVars, wVars, part>>
    /\ part = "session" => Fairness
    /\ part = "send" => SendFairness

\* A session that was lost, refused or left incomplete is ready again (see
\* ReadyAgain of AtemSession), in the behaviours that are about sessions.
SessionReadyAgain == part = "session" => ReadyAgain
=============================================================================
