-------------------------------- MODULE McpBridge --------------------------------
(***************************************************************************)
(* The server as a Model Context Protocol server: the router of            *)
(* mcp_server.py, MCPBridgeServer (mcp-bridge/server.py), and MCPClient    *)
(* (client.py) for what a caller at the other end makes of the answers.    *)
(*                                                                         *)
(* It runs beside the start and the routes of CoreStartup: its search tool *)
(* uses their pipeline.  Only methods and the shapes of parameters that    *)
(* lead to different answers are told apart.                               *)
(***************************************************************************)
EXTENDS CoreStartup

CONSTANTS
  ToolSets,           \* the tools that may be registered
  AllowedActions,     \* those that need no confirmation
  MaxMcpCalls         \* bound on the calls

VARIABLES
  tools,
  captured,           \* the pipeline that was there when the router was built
  call,               \* the call under way: [pc, via, method, shape, name, said, sender, confirmed]
  reply,              \* the last answer as the server sent it: [kind, call, failed, found]
  mcpAudit,              \* the entries of the audit log: [principal, tool, failed]
  mcpCalls,
  ran                 \* history: the tools that ran, [principal, tool, failed, error, confirmed, named, seeded]

mcpVars == <<tools, captured, call, reply, mcpAudit, mcpCalls, ran>>

ASSUME McpAssumption == MaxMcpCalls \in Nat /\ AllowedActions \subseteq STRING

NoCall ==
  [pc |-> "idle", via |-> "rpc", method |-> "", shape |-> "object", name |-> "", said |-> "",
   sender |-> "", confirmed |-> FALSE]
NoReply == [kind |-> "none", call |-> FALSE, failed |-> FALSE, found |-> {}]

McpInit ==
  /\ StartInit /\ tools = {} /\ captured = None
  /\ call = NoCall /\ reply = NoReply /\ mcpAudit = <<>> /\ mcpCalls = 0 /\ ran = <<>>

\* The router is built with the application, and ends with it.
create_mcp_router ==
  /\ create_app \/ Crash
  /\ tools' \in ToolSets /\ captured' = app'.pipeline
  /\ mcpAudit' = <<>> /\ call' = NoCall /\ reply' = NoReply /\ ran' = <<>> /\ UNCHANGED mcpCalls

------------------------------------------------------------------------------

\* A bound, too: a service that is missing shows in the error of a tool, and is not
\* needed here besides.
CanCall == serverPc = "up" /\ call.pc = "idle" /\ mcpCalls < MaxMcpCalls /\ down = {}

\* A request of the protocol: one without an id or with parameters of the wrong shape is
\* invalid, the others are a method, a call among them.
RpcArrives ==
  /\ CanCall
  /\ \E method \in {"initialize", "tools/list", "tools/call", "other"},
        shape \in {"object", "arguments-list", "arguments-null", "params-list", "no-id", "no-object"},
        name \in {"aegismind_search", "write_note"}, said \in {"", "ann"}, confirmed \in BOOLEAN :
       /\ method # "tools/call" => shape \in {"object", "no-id"}
       /\ method # "tools/call" \/ shape # "object" => name = "write_note" /\ said = "" /\ ~confirmed
       /\ call' = [NoCall EXCEPT !.pc = "running", !.method = method, !.shape = shape, !.name = name,
                                 !.said = said, !.confirmed = confirmed]
  /\ mcpCalls' = mcpCalls + 1 /\ reply' = NoReply /\ response' = NoResponse
  /\ UNCHANGED <<plugins, down, serverPc, app, contents, serverStarts, ingests, startErrors, brought,
                 tools, captured, mcpAudit, ran>>

\* POST /mcp/tools/<name>: the principal of the arguments goes before that of the payload.
ToolArrives ==
  /\ CanCall
  /\ \E name \in {"aegismind_search", "write_note"}, said \in {"", "ann"}, confirmed \in BOOLEAN :
       call' = [NoCall EXCEPT !.pc = "running", !.via = "tool", !.method = "tools/call", !.name = name,
                              !.said = said, !.sender = "bob", !.confirmed = confirmed]
  /\ mcpCalls' = mcpCalls + 1 /\ reply' = NoReply /\ response' = NoResponse
  /\ UNCHANGED <<plugins, down, serverPc, app, contents, serverStarts, ingests, startErrors, brought,
                 tools, captured, mcpAudit, ran>>

Blocked == call.name \notin AllowedActions /\ ~call.confirmed

\* Whether the message gets as far as its tool, and whether that may run.
Valid == call.shape = "object"

Runs == call.method = "tools/call" /\ Valid /\ call.name \in tools /\ ~Blocked

\* Whom a tool acts for, and whom the audit log names.
Acting ==
  IF call.said # "" THEN call.said ELSE IF call.via = "tool" THEN call.sender ELSE "mcp-user"
Audited ==
  IF call.via = "tool" THEN call.sender ELSE IF call.said # "" THEN call.said ELSE "mcp-rpc-client"

\* The pipeline the router was built with, or else the one the state has by now.
ActivePipeline == IF captured # None THEN captured ELSE app.pipeline

\* The tool's own outcome: a search without a pipeline, or with a number that is none,
\* fails; so may any tool.
Fails(error) == error \/ (call.name = "aegismind_search" /\ ActivePipeline = None)

\* Every call of a tool that the router can read is recorded, whatever came of it.
IsAudited(failed) == call.method = "tools/call"

\* The router reads the parameters again for the audit log, and a list breaks it there.
Unreadable ==
  call.shape = "no-object" \/ (call.method = "tools/call" /\ call.shape \in {"arguments-list", "params-list"})

IsError(failed) == failed

SendReply(kind, failed, found) ==
  reply' = [kind |-> kind, call |-> call.method = "tools/call", failed |-> IsError(failed), found |-> found]

Log(failed) ==
  mcpAudit' = IF IsAudited(failed)
           THEN Append(mcpAudit, [principal |-> Audited, tool |-> call.name, failed |-> failed]) ELSE mcpAudit

\* The call is dispatched, its tool runs, the audit entry is written, the answer sent.
handle_jsonrpc ==
  /\ call.pc = "running" /\ ~Runs /\ ~Unreadable
  /\ CASE ~Valid -> SendReply("error", TRUE, {})
       [] Valid /\ call.method = "other" -> SendReply("error", TRUE, {})
       [] Valid /\ call.method = "tools/call" -> SendReply("result", TRUE, {})
       [] OTHER -> SendReply("result", FALSE, {})
  /\ Log(call.via = "tool" \/ ~Valid)
  /\ call' = NoCall /\ UNCHANGED <<startVars, tools, captured, mcpCalls, ran>>

\* An exception nobody catches: the server answers 500.
RouterBreaks ==
  /\ call.pc = "running" /\ ~Runs /\ Unreadable
  /\ SendReply("500", TRUE, {})
  /\ call' = NoCall /\ UNCHANGED <<startVars, tools, captured, mcpAudit, mcpCalls, ran>>

\* The audit entry of a call by RPC has an error only if the protocol had one.
call_tool ==
  /\ call.pc = "running" /\ Runs
  /\ \E error \in BOOLEAN :
       LET failed == Fails(error)
           found == IF call.name = "aegismind_search" /\ ~failed THEN contents[ActivePipeline] ELSE {} IN
       /\ SendReply("result", failed, found)
       /\ Log(call.via = "tool" /\ failed)
       /\ ran' = Append(ran, [principal |-> Acting, tool |-> call.name, failed |-> failed,
                              error |-> error, confirmed |-> call.confirmed,
                              named |-> (call.via = "tool") = (call.said = ""),
                              seeded |-> app.pipeline # None])
  /\ call' = NoCall /\ UNCHANGED <<startVars, tools, captured, mcpCalls>>

\* What MCPClient.call_tool makes of an answer: an exception, a response that says it is
\* an error, or one that does not.
Told ==
  CASE reply.kind = "500" -> "raised"
    [] reply.kind = "error" -> "error"
    [] OTHER -> IF reply.failed THEN "error" ELSE "fine"

\* A bound: what is requested besides comes before the last call begins.
Besides == mcpCalls < MaxMcpCalls

McpNext ==
  \/ create_mcp_router
  \/ /\ Besides
     /\ \/ lifespan \/ (\E kind \in {"search", "chat", "ingest"} : RequestErrs(kind))
        \/ (\E kind \in {"search", "chat"} : search(kind)) \/ (\E doc \in Uploads : ingest_document(doc))
        \/ (mcpCalls = 0 /\ ServiceFlips) \/ perform_readiness_check \/ legacy_readiness_check
     /\ reply' = NoReply /\ UNCHANGED <<tools, captured, call, mcpAudit, mcpCalls, ran>>
  \/ RpcArrives \/ ToolArrives \/ handle_jsonrpc \/ RouterBreaks \/ call_tool

coreVars == <<startVars, mcpVars>>
McpSpec == McpInit /\ [][McpNext]_coreVars

------------------------------------------------------------------------------

\* Only a server that is up answers, and only what it has registered runs.
McpTypeOK ==
  /\ call.pc \in {"idle", "running"} /\ (serverPc # "up" => call = NoCall /\ mcpAudit = <<>>)
  /\ \A i \in DOMAIN ran : ran[i].tool \in tools
  /\ Len(ran) <= mcpCalls /\ Len(mcpAudit) <= mcpCalls

\* No tool beyond reading runs without its caller's confirmation, however it is called.
ConfirmedOrAllowed == \A i \in DOMAIN ran : ran[i].tool \in AllowedActions \/ ran[i].confirmed

\* Every tool that ran has its entry, in order, failed or not; and it names whom the tool
\* acted for, where the call names one that both sides read (rpc_endpoint, invoke_tool).
RunsAreAudited ==
  \E place \in [DOMAIN ran -> DOMAIN mcpAudit] :
    /\ \A i, j \in DOMAIN ran : i < j => place[i] < place[j]
    /\ \A i \in DOMAIN ran :
         /\ mcpAudit[place[i]].tool = ran[i].tool
         /\ ran[i].named => mcpAudit[place[i]].principal = ran[i].principal
         /\ mcpAudit[place[i]].failed => ran[i].failed

\* A tool that finds nothing wrong fails only while the state has no pipeline, however
\* late that came (_search_handler).
ToolsWorkOnceSeeded == \A i \in DOMAIN ran : ran[i].failed => ran[i].error \/ ~ran[i].seeded

\* A client takes a call for done only if its tool ran and did not fail, and what a
\* search then gave it are the documents that a search through the API finds.
ClientNotMisled ==
  reply.call /\ Told = "fine" =>
    /\ ran # <<>> /\ ~ran[Len(ran)].failed
    /\ ran[Len(ran)].tool = "aegismind_search" => reply.found = contents[app.pipeline]

\* However late the start succeeds, documents, index and connectors fit each other, what
\* was taken in stays, and a server that says it is ready is; and a tool runs confirmed or
\* allowed, on the pipeline of the moment, with its entry and with an answer that tells
\* a client whether it ran.
CoreSound ==
  /\ ListedIsSearchable /\ BroughtIsKept /\ BuiltInsOffered /\ ReadyCanAnswer
  /\ ConfirmedOrAllowed /\ RunsAreAudited /\ ToolsWorkOnceSeeded /\ ClientNotMisled
==============================================================================
