---------------------------- MODULE AuthService ----------------------------
(***************************************************************************)
(* The whole authorization server: the login flow and the token endpoint   *)
(* in one process, over one heap of OauthSessions and the same three maps. *)
(*                                                                         *)
(* The two meet in an OauthSession.  stopSession writes its identification *)
(* each time a login of it ends, also after its code is out, while the     *)
(* token endpoint reads the identification anew for every token it makes.  *)
(* A client posts with a code that a redirect has brought it, instead of   *)
(* the session that TokenEndpoint's Login leaves behind.                   *)
(***************************************************************************)
EXTENDS LoginProperties, TokenProperties

authVars == <<heap, storeVars, loginVars, now, req>>

Delivered(s) == \E d \in delivered : d.code = Code(s)

LoginStep == LoginNext /\ UNCHANGED <<now, req>>

TokenStep(r) ==
  /\ Serve(r) \/ Refuse(r) \/ \E s \in Sessions : Delivered(s) /\ PostCode(r, s)
  /\ UNCHANGED loginVars

Passes == Tick /\ UNCHANGED loginVars

\* The process ends, with everything that it keeps in memory.
RestartAll == Restart /\ Crash

AuthInit == Init /\ TokenInit

AuthNext == LoginStep \/ (\E r \in Requests : TokenStep(r)) \/ Passes \/ RestartAll

AuthSpec == AuthInit /\ [][AuthNext]_authVars
=============================================================================
