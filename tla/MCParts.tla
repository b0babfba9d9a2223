------------------------------ MODULE MCParts -------------------------------
(* Small instances of the modules that model one component each, checked   *)
(* together for safety: a behaviour is one of one module, with the others  *)
(* at rest.                                                                *)
EXTENDS Transcript, SessionLog, HubSync, StatusCache, LspDocs,
        LspClient, Bridge, Background, Mcp, Attach, Companion, ReplayWindow,
        Terminals, FileWatch, Buffers

VARIABLE part
partsVars ==
  <<part, transcriptVars, logVars, hubVars, cacheVars, slotVars, docsVars,
    rpcVars, bridgeVars, bgVars, mcpVars, attachVars, companionVars, windowVars,
    termVars, watchVars, bufferVars>>

PartsInit ==
  /\ part \in {"transcript", "file", "hub", "cache", "slot", "docs", "rpc", "bridge",
              "background", "mcp", "attach", "companion", "window",
              "terminal", "watcher", "buffer"}
  /\ TranscriptInit /\ LogInit /\ HubInit /\ CacheInit /\ SlotInit
  /\ DocsInit /\ RpcInit /\ BridgeInit /\ BgInit /\ McpInit /\ AttachInit
  /\ CompanionInit /\ WindowInit /\ TermInit /\ WatchInit /\ BufferInit
  \* A module at rest has one of its profiles, so that the others are not multiplied.
  /\ part # "transcript" => may = CHOOSE p \in Profiles : TRUE
  /\ part # "file" => race = CHOOSE p \in Races : TRUE
  /\ part # "hub" => trip = CHOOSE p \in Trips : TRUE
  /\ part # "slot" => quirk = CHOOSE p \in SpawnRaces : TRUE
  /\ part # "docs" => lapse = CHOOSE p \in Overlaps : TRUE
  /\ part # "rpc" => rpcRace = CHOOSE p \in Rpc : TRUE
  /\ part # "background" => bgRace = CHOOSE p \in BgRaces : TRUE
  /\ part # "mcp" => mcpEvent = CHOOSE p \in McpEvents : TRUE
  /\ part # "attach" => trouble = CHOOSE p \in LinkTroubles : TRUE
  /\ part # "companion" => upset = CHOOSE p \in PhoneTroubles : TRUE
  /\ part # "terminal" => bustle = CHOOSE p \in Bustles : TRUE
  /\ part # "watcher" => whim = CHOOSE p \in Whims : TRUE
  /\ part # "buffer" => hand = CHOOSE p \in Hands : TRUE

PartsNext ==
  \/ part = "transcript" /\ TranscriptNext
       /\ UNCHANGED <<part, logVars, hubVars, cacheVars, slotVars, docsVars, rpcVars,
                      bridgeVars, bgVars, mcpVars, attachVars, companionVars,
                      windowVars, termVars, watchVars, bufferVars>>
  \/ part = "file" /\ LogNext
       /\ UNCHANGED <<part, transcriptVars, hubVars, cacheVars, slotVars, docsVars,
                      rpcVars, bridgeVars, bgVars, mcpVars, attachVars, companionVars,
                      windowVars, termVars, watchVars, bufferVars>>
  \/ part = "hub" /\ HubNext
       /\ UNCHANGED <<part, transcriptVars, logVars, cacheVars, slotVars, docsVars,
                      rpcVars, bridgeVars, bgVars, mcpVars, attachVars, companionVars,
                      windowVars, termVars, watchVars, bufferVars>>
  \/ part = "cache" /\ CacheNext
       /\ UNCHANGED <<part, transcriptVars, logVars, hubVars, slotVars, docsVars,
                      rpcVars, bridgeVars, bgVars, mcpVars, attachVars, companionVars,
                      windowVars, termVars, watchVars, bufferVars>>
  \/ part = "slot" /\ SlotNext
       /\ UNCHANGED <<part, transcriptVars, logVars, hubVars, cacheVars, docsVars,
                      rpcVars, bridgeVars, bgVars, mcpVars, attachVars, companionVars,
                      windowVars, termVars, watchVars, bufferVars>>
  \/ part = "docs" /\ DocsNext
       /\ UNCHANGED <<part, transcriptVars, logVars, hubVars, cacheVars, slotVars,
                      rpcVars, bridgeVars, bgVars, mcpVars, attachVars, companionVars,
                      windowVars, termVars, watchVars, bufferVars>>
  \/ part = "rpc" /\ RpcNext
       /\ UNCHANGED <<part, transcriptVars, logVars, hubVars, cacheVars, slotVars,
                      docsVars, bridgeVars, bgVars, mcpVars, attachVars, companionVars,
                      windowVars, termVars, watchVars, bufferVars>>
  \/ part = "bridge" /\ BridgeNext
       /\ UNCHANGED <<part, transcriptVars, logVars, hubVars, cacheVars, slotVars,
                      docsVars, rpcVars, bgVars, mcpVars, attachVars, companionVars,
                      windowVars, termVars, watchVars, bufferVars>>
  \/ part = "background" /\ BgNext
       /\ UNCHANGED <<part, transcriptVars, logVars, hubVars, cacheVars, slotVars,
                      docsVars, rpcVars, bridgeVars, mcpVars, attachVars,
                      companionVars, windowVars, termVars, watchVars, bufferVars>>
  \/ part = "mcp" /\ McpNext
       /\ UNCHANGED <<part, transcriptVars, logVars, hubVars, cacheVars, slotVars,
                      docsVars, rpcVars, bridgeVars, bgVars, attachVars, companionVars,
                      windowVars, termVars, watchVars, bufferVars>>
  \/ part = "attach" /\ AttachNext
       /\ UNCHANGED <<part, transcriptVars, logVars, hubVars, cacheVars, slotVars,
                      docsVars, rpcVars, bridgeVars, bgVars, mcpVars, companionVars,
                      windowVars, termVars, watchVars, bufferVars>>
  \/ part = "companion" /\ CompanionNext
       /\ UNCHANGED <<part, transcriptVars, logVars, hubVars, cacheVars, slotVars,
                      docsVars, rpcVars, bridgeVars, bgVars, mcpVars, attachVars,
                      windowVars, termVars, watchVars, bufferVars>>
  \/ part = "window" /\ WindowNext
       /\ UNCHANGED <<part, transcriptVars, logVars, hubVars, cacheVars, slotVars,
                      docsVars, rpcVars, bridgeVars, bgVars, mcpVars, attachVars,
                      companionVars, termVars, watchVars, bufferVars>>
  \/ part = "terminal" /\ TermNext
       /\ UNCHANGED <<part, transcriptVars, logVars, hubVars, cacheVars, slotVars,
                      docsVars, rpcVars, bridgeVars, bgVars, mcpVars, attachVars,
                      companionVars, windowVars, watchVars, bufferVars>>
  \/ part = "watcher" /\ WatchNext
       /\ UNCHANGED <<part, transcriptVars, logVars, hubVars, cacheVars, slotVars,
                      docsVars, rpcVars, bridgeVars, bgVars, mcpVars, attachVars,
                      companionVars, windowVars, termVars, bufferVars>>
  \/ part = "buffer" /\ BufferNext
       /\ UNCHANGED <<part, transcriptVars, logVars, hubVars, cacheVars, slotVars,
                      docsVars, rpcVars, bridgeVars, bgVars, mcpVars, attachVars,
                      companionVars, windowVars, termVars, watchVars>>

PartsSpec == PartsInit /\ [][PartsNext]_partsVars
=============================================================================
