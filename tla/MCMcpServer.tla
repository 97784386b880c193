---------------------------- MODULE MCMcpServer -----------------------------
EXTENDS McpServer, TLC
CONSTANTS c1, c2, c3
\* Tools that differ only in the number and the names of their reads behave alike: one of each shape.
MCShapes == {mcpClusterOverview, mcpTopicLayout, mcpGetRun, mcpRunPreview, mcpKatesActivity, mcpRunReport}
\* Such a call, beside two that only pass the pin check.
MCInPlay == (c1 :> MCShapes) @@ (c2 :> {mcpDraftScenario}) @@ (c3 :> {mcpDraftScenario})
=============================================================================
