----------------------------- MODULE MCServices -----------------------------
(* Small instances of the modules about the services around a session and  *)
(* about what the window shows, checked together: a behaviour is one of    *)
(* one module, with the others at rest.                                    *)
EXTENDS Bridge, LspClient, Background, Mcp, Attach, Companion, Terminals,
        FileWatch, Buffers

VARIABLE part
servicesVars ==
  <<part, bridgeVars, rpcVars, bgVars, mcpVars, attachVars, companionVars,
    termVars, watchVars, bufferVars>>

ServicesInit ==
  /\ part \in {"bridge", "rpc", "background", "mcp", "attach", "companion", "terminal",
              "watcher", "buffer"}
  /\ BridgeInit /\ RpcInit /\ BgInit /\ McpInit /\ AttachInit
  /\ CompanionInit /\ TermInit /\ WatchInit /\ BufferInit
  \* A module at rest has one of its profiles, so that the others are not multiplied.
  /\ part # "rpc" => rpcRace = CHOOSE p \in Rpc : TRUE
  /\ part # "background" => bgRace = CHOOSE p \in BgRaces : TRUE
  /\ part # "mcp" => mcpEvent = CHOOSE p \in McpEvents : TRUE
  /\ part # "attach" => trouble = CHOOSE p \in LinkTroubles : TRUE
  /\ part # "companion" => upset = CHOOSE p \in PhoneTroubles : TRUE
  /\ part # "terminal" => bustle = CHOOSE p \in Bustles : TRUE
  /\ part # "watcher" => whim = CHOOSE p \in Whims : TRUE
  /\ part # "buffer" => hand = CHOOSE p \in Hands : TRUE

ServicesNext ==
  \/ part = "bridge" /\ BridgeNext
       /\ UNCHANGED <<part, rpcVars, bgVars, mcpVars, attachVars, companionVars, termVars,
                      watchVars, bufferVars>>
  \/ part = "rpc" /\ RpcNext
       /\ UNCHANGED <<part, bridgeVars, bgVars, mcpVars, attachVars, companionVars, termVars,
                      watchVars, bufferVars>>
  \/ part = "background" /\ BgNext
       /\ UNCHANGED <<part, bridgeVars, rpcVars, mcpVars, attachVars, companionVars, termVars,
                      watchVars, bufferVars>>
  \/ part = "mcp" /\ McpNext
       /\ UNCHANGED <<part, bridgeVars, rpcVars, bgVars, attachVars, companionVars, termVars,
                      watchVars, bufferVars>>
  \/ part = "attach" /\ AttachNext
       /\ UNCHANGED <<part, bridgeVars, rpcVars, bgVars, mcpVars, companionVars, termVars,
                      watchVars, bufferVars>>
  \/ part = "companion" /\ CompanionNext
       /\ UNCHANGED <<part, bridgeVars, rpcVars, bgVars, mcpVars, attachVars, termVars,
                      watchVars, bufferVars>>
  \/ part = "terminal" /\ TermNext
       /\ UNCHANGED <<part, bridgeVars, rpcVars, bgVars, mcpVars, attachVars, companionVars,
                      watchVars, bufferVars>>
  \/ part = "watcher" /\ WatchNext
       /\ UNCHANGED <<part, bridgeVars, rpcVars, bgVars, mcpVars, attachVars, companionVars,
                      termVars, bufferVars>>
  \/ part = "buffer" /\ BufferNext
       /\ UNCHANGED <<part, bridgeVars, rpcVars, bgVars, mcpVars, attachVars, companionVars,
                      termVars, watchVars>>

ServicesSpec ==
  /\ ServicesInit /\ [][ServicesNext]_servicesVars
  \* A module at rest is left alone, also where it could take a step.
  /\ \/ part = "bridge" /\ BridgeFairness
     \/ part = "rpc" /\ RpcFairness
     \/ part = "background" /\ BgFairness
     \/ part = "mcp" /\ McpFairness
     \/ part = "attach" /\ AttachFairness
     \/ part = "companion" /\ CompanionFairness
     \/ part = "terminal" /\ TermFairness
     \/ part = "watcher" /\ WatchFairness
     \/ part = "buffer" /\ BufferFairness

\* Whoever waits for a service is told in the end: a phone, a caller of a
\* language server or of a remote workspace, a session that a process is to wake,
\* a call of an MCP tool; a language server that is shut down ends, the MCP server
\* of an idle session is given up; a desktop whose user asks for the workspace
\* connects again, and a phone's stream moves along with a call that had to be made
\* on a new session.  The tab of a terminal whose shell has ended goes, the file
\* tree follows the disk, and so do a buffer without changes of its own, and the
\* language server it.
ServicesSettle ==
  /\ part = "bridge" => Answered
  /\ part = "rpc" => CallersWake /\ ShutdownEnds
  /\ part = "background" => NoticeComes
  /\ part = "mcp" => CallsEnd /\ IdleReaped
  /\ part = "attach" => AttachSettles
  /\ part = "companion" => CompanionSettles
  /\ part = "terminal" => TabGoes
  /\ part = "watcher" => TreeComes
  /\ part = "buffer" => BufferComes
=============================================================================
