---------------------------- MODULE ClientSession ----------------------------
(***************************************************************************)
(* The two clients of a session put together: the negotiation through the  *)
(* relay (Handshake), the technician's annotations over the data channel   *)
(* the negotiation opens (Annotations), and the click that places one      *)
(* (VideoCoords).                                                          *)
(***************************************************************************)
EXTENDS Handshake, Annotations, VideoCoords

sessionVars == <<vars, annVars, viewVars>>

SessionInit == Init /\ AnnInit /\ ViewInit

\* The data channel opens once the agent has applied the answer; a click or the
\* clear button does nothing before the session exists.
Annotate ==
  /\ AnnNext
  /\ open' # open => answered = "yes"
  /\ tries' # tries => ui = "session"

Click ==
  /\ ViewNext
  /\ norm' # NONE => ui = "session"

SessionNext ==
  \/ Next /\ UNCHANGED <<annVars, viewVars>>
  \/ Annotate /\ UNCHANGED <<vars, viewVars>>
  \/ Click /\ UNCHANGED <<vars, annVars>>

\* Both programs run on; the user may never enter the code, candidates come as
\* they come, and the technician need not draw.
SessionSpec ==
  /\ SessionInit /\ [][SessionNext]_sessionVars
  /\ WF_sessionVars(Agent /\ UNCHANGED <<annVars, viewVars>>)
  /\ WF_sessionVars(Phone /\ UNCHANGED <<annVars, viewVars>>)
=============================================================================
