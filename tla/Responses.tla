----------------------------- MODULE Responses -----------------------------
(***************************************************************************)
(* What a request handler leaves in the Response object, as far as the     *)
(* server can tell two responses apart: the code that GetStatus() reports  *)
(* (and the request history records) and the code on the status line of    *)
(* the bytes that ToString() produces (and the client reads).  The two are *)
(* separate fields in the program, and they do not always agree.           *)
(*                                                                         *)
(* Bodies, headers and wording are left out: no property is about them.    *)
(***************************************************************************)
EXTENDS Integers

CONSTANTS
    ScriptCodes,   \* arguments the served Lua scripts pass to setstatus()
    RemoteCodes,   \* status codes origins answer with; 0: no status code in
                   \* the first line of the reply
    Uninit         \* what an uninitialised Response::status may hold

ASSUME CodesAssumption ==
    /\ ScriptCodes \subseteq Int
    /\ RemoteCodes \subseteq Nat
    /\ Uninit \subseteq Int

(* enum Response::ResponseCode.                                            *)
ResponseCode ==
    {200, 201, 202, 204, 301, 302, 304, 400, 401, 403, 404, 500, 501, 502, 503}

(* StatusString::ToString: a status outside the enum gets the 500 line.    *)
StatusLine(status) == IF status \in ResponseCode THEN status ELSE 500

(* A Response without SetFullResponse: ToString() writes the status line   *)
(* of its own status.                                                      *)
Plain(status) == [code |-> status, wire |-> StatusLine(status)]

(* Response::DefaultResponse                                               *)
DefaultResponse(status) == Plain(status)

(* The arguments lua_setstatus accepts; any other one is a Lua error.      *)
Settable ==
    (200..204) \cup {301, 302, 304, 400, 401, 403, 404} \cup (500..503)

InternalServerError == DefaultResponse(500)

-----------------------------------------------------------------------------
(* One set of possible responses per handler.  A handler that returns      *)
(* RequestHandler::Error is answered with the default 500 response, which  *)
(* is included here as the session substitutes it.                         *)

EchoResponses == {Plain(200)}

NotFoundResponses == {DefaultResponse(404)}

StatusResponses == {Plain(200)}

(* StaticFileHandler: a missing file is a 404, a file is a 200 unless a    *)
(* script in it calls setstatus, and a script or a read may fail.          *)
StaticFileResponses ==
    NotFoundResponses
      \cup {Plain(200), InternalServerError}
      \cup {Plain(a) : a \in ScriptCodes \cap Settable}

(* Mutant: the last else of getRemoteResponseCode is missing.              *)
RecordedCodesNoElse(remote) ==
    CASE remote = 200        -> {200}
      [] remote \in {404, 500} -> {404}
      [] OTHER               -> Uninit

(* getRemoteResponseCode and the assignments of HandleRequest: the code    *)
(* recorded for an origin's reply.  A 302 that is not followed, and a      *)
(* reply without a code, leave the status uninitialised.                   *)
RecordedCodes(remote) ==
    CASE remote = 200        -> {200}
      [] remote \in {404, 500} -> {404}
      [] remote \in {0, 302} -> Uninit
      [] OTHER               -> {500}

(* The origin's bytes are forwarded as they came, whatever is recorded; an *)
(* empty reply makes ToString() fall back to the (uninitialised) status.   *)
ReverseProxyResponses ==
    {InternalServerError}
      \cup {Plain(u) : u \in Uninit}
      \cup (UNION {[code : RecordedCodes(r), wire : {r}] : r \in RemoteCodes})

HandlerTypes ==
    {"EchoHandler", "NotFoundHandler", "StaticFileHandler",
     "ReverseProxyHandler", "StatusHandler"}

(* HandleRequest followed by the session's check of its return value.      *)
HandleRequest(type) ==
    CASE type = "EchoHandler"         -> EchoResponses
      [] type = "NotFoundHandler"     -> NotFoundResponses
      [] type = "StaticFileHandler"   -> StaticFileResponses
      [] type = "ReverseProxyHandler" -> ReverseProxyResponses
      [] type = "StatusHandler"       -> StatusResponses

(* The response to a request that does not parse, or has no usable path.   *)
BadRequest == DefaultResponse(400)

(* Everything a session may ever write, and the codes it may record.       *)
AllResponses ==
    {BadRequest} \cup (UNION {HandleRequest(t) : t \in HandlerTypes})

Codes == {r.code : r \in AllResponses}
=============================================================================
