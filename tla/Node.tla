---------------------------------- MODULE Node ----------------------------------
(***************************************************************************)
(* What one node does outside the journal: the data directory with the     *)
(* daemon and the operator, the workflows it serves and the graphs they    *)
(* are defined by, the paged reads, and the effects of a run on the world, *)
(* which are a retrieval, a tool of an MCP server or a contained write.    *)
(* The parts share no variable.  The one event they have in common, the    *)
(* end of the daemon's process, is possible at any point of each of them,  *)
(* so that a behaviour of the node, seen by one part, is a behaviour of    *)
(* that part, and the other parts may stand still: a behaviour here is of  *)
(* one part.  What the journal says of the effects is the subject of       *)
(* HarnessRun.                                                             *)
(***************************************************************************)
EXTENDS Deployment, Containment, McpTool, Knowledge, Workflow, Listing

CONSTANT GraphDefinitions  \* definitions passed to GraphDefinition::new

VARIABLE part   \* the part that moves

nodeVars == <<deployVars, containVars, mcpVars, knowledgeVars, workflowVars, listingVars,
              part>>

Still == CHOOSE r \in Requests : r.pinned = Backends

Smallest == [start |-> "c", nodes |-> <<node("c", "Complete", <<>>)>>, edges |-> <<>>]

NodeInit ==
    /\ part \in {"directory", "write", "tool", "retrieval", "workflow", "definition",
                "listing"}
    /\ DeployInit /\ ContainInit /\ McpInit /\ KnowledgeInit
    /\ part # "retrieval" => request = Still
    /\ part # "directory" => build = CHOOSE b \in Builds : TRUE
    /\ ListingInit
    /\ part # "listing" => table = <<>>
    /\ WorkflowInit(IF part = "definition" THEN GraphDefinitions ELSE {Smallest})
    /\ part # "workflow" => run.kind = "ReadOnly"

NodeNext ==
    \/ /\ part = "directory" /\ DeployNext
       /\ UNCHANGED <<containVars, mcpVars, knowledgeVars, workflowVars, listingVars, part>>
    \/ /\ part = "write" /\ ContainNext
       /\ UNCHANGED <<deployVars, mcpVars, knowledgeVars, workflowVars, listingVars, part>>
    \/ /\ part = "tool" /\ McpNext
       /\ UNCHANGED <<deployVars, containVars, knowledgeVars, workflowVars, listingVars, part>>
    \/ /\ part = "retrieval" /\ KnowledgeNext
       /\ UNCHANGED <<deployVars, containVars, mcpVars, workflowVars, listingVars, part>>
    \/ /\ part = "workflow" /\ WorkflowNext
       /\ UNCHANGED <<deployVars, containVars, mcpVars, knowledgeVars, listingVars, part>>
    \/ /\ part = "listing" /\ ListingNext
       /\ UNCHANGED <<deployVars, containVars, mcpVars, knowledgeVars, workflowVars, part>>

NodeSpec ==
    /\ NodeInit /\ [][NodeNext]_nodeVars
    /\ ContainFairness /\ McpFairness

--------------------------------------------------------------------------------
(* The two kinds of MCP server a node starts, for a tool call and for a    *)
(* standards retrieval, are killed when their caller has its answer:       *)
(* SettledIsKilled and ServerNotLeft, whichever of them the node runs.     *)
ServersKilled == SettledIsKilled /\ ServerNotLeft

(* No child process keeps the node waiting: the tree of a contained write  *)
(* ends whatever the worker does, and the session of a tool call whatever  *)
(* the server does.                                                        *)
ChildrenEnd == TreeEnds /\ SessionEnds
================================================================================
