----------------------------- MODULE AgentPolicy -----------------------------
(***************************************************************************)
(* How a message is turned into work: IntentRouter (harness/intent.py),    *)
(* the tools each agent may use (tools/builtin.py), the agents'            *)
(* configuration and its validation (agents/registry.py), and the tool     *)
(* plan of AgentRuntime (harness/runtime.py).  An utterance is abstracted  *)
(* to what these tell apart: whether RiskGate finds a high-risk keyword,   *)
(* which groups of routing keywords it contains, whether it has an image.  *)
(***************************************************************************)
EXTENDS Sequences

Agents == {"main-agent", "security-researcher", "ops-troubleshooter",
           "alarm-analyst", "object-analyst"}

Tools == {"search_security_knowledge", "query_device_status",
          "query_alarm_events", "create_security_todos", "update_task_status",
          "request_human_review", "analyze_security_object", "archive_episode"}

Utterances ==
    [risky : BOOLEAN, topics : SUBSET {"alarm", "knowledge", "device"},
     image : BOOLEAN]

-----------------------------------------------------------------------------
\* Routing

\* A bug the router would have if an agent's name were misspelt.
RouteToUnknown(say) ==
    IF say.image THEN "object-analyst"
    ELSE IF "alarm" \in say.topics THEN "alarm-analyst"
    ELSE IF "knowledge" \in say.topics THEN "security-researcher"
    ELSE IF "device" \in say.topics THEN "ops-troubleshooting"
    ELSE "main-agent"

\* The first rule that matches decides.
Route(say) ==
    IF say.image THEN "object-analyst"
    ELSE IF "alarm" \in say.topics THEN "alarm-analyst"
    ELSE IF "knowledge" \in say.topics THEN "security-researcher"
    ELSE IF "device" \in say.topics THEN "ops-troubleshooter"
    ELSE "main-agent"

-----------------------------------------------------------------------------
\* The tool registry and the configuration of the agents

\* The agents a tool's specification allows.
AllowedAgents ==
    [tool \in Tools |->
        CASE tool \in {"search_security_knowledge", "request_human_review"} -> Agents
          [] tool = "query_device_status"     -> {"ops-troubleshooter"}
          [] tool = "query_alarm_events"      -> {"alarm-analyst"}
          [] tool = "analyze_security_object" -> {"object-analyst"}
          [] OTHER                            -> {"ops-troubleshooter", "alarm-analyst"}]

\* A configuration names its model profiles, and for each agent it has, the
\* agent's profile and tools.
UnknownProfile(config) ==
    \E a \in DOMAIN config.agents : config.agents[a].profile \notin config.profiles

UnknownTool(config) ==
    \E a \in DOMAIN config.agents : ~(config.agents[a].tools \subseteq Tools)

DisallowedTool(config) ==
    \E a \in DOMAIN config.agents :
        \E tool \in config.agents[a].tools \cap Tools : a \notin AllowedAgents[tool]

\* A bug _validate would have if it did not look profiles up.
ValidateToolsOnly(config) ==
    /\ config.profiles # {}
    /\ DOMAIN config.agents # {}
    /\ ~UnknownTool(config)
    /\ ~DisallowedTool(config)

\* What the service starts with; anything else stops it with AgentConfigError.
Validate(config) ==
    /\ config.profiles # {}
    /\ DOMAIN config.agents # {}
    /\ ~UnknownProfile(config)
    /\ ~UnknownTool(config)
    /\ ~DisallowedTool(config)

\* get_model_profile raises KeyError for an agent, or a profile, that the
\* configuration does not have.
CanServe(config, agent) ==
    /\ agent \in DOMAIN config.agents
    /\ config.agents[agent].profile \in config.profiles

-----------------------------------------------------------------------------
\* The tool plan

AgentTools(agent) ==
    CASE agent = "ops-troubleshooter" ->
            <<"query_device_status", "search_security_knowledge", "create_security_todos">>
      [] agent = "alarm-analyst" ->
            <<"query_alarm_events", "search_security_knowledge", "create_security_todos">>
      [] agent = "object-analyst" ->
            <<"analyze_security_object", "search_security_knowledge">>
      [] OTHER -> <<"search_security_knowledge">>

\* A bug _tool_plan would have if it did not ask the gate.
ToolPlanUngated(agent, risky) == AgentTools(agent)

\* A message with a high-risk keyword gets a review and nothing else.
ToolPlan(agent, risky) ==
    IF risky THEN <<"request_human_review">> ELSE AgentTools(agent)

\* The plan an agent runs: the planned tools, three at most, that it is
\* configured with.  That the tool's own specification allows the agent, which
\* invoke checks once more before it calls the tool, Validate has made sure of.
ConfiguredPlan(config, agent, risky) ==
    LET plan    == ToolPlan(agent, risky)
        Kept(i) == IF i \in DOMAIN plan /\ plan[i] \in config.agents[agent].tools
                   THEN <<plan[i]>> ELSE <<>>
    IN Kept(1) \o Kept(2) \o Kept(3)
=============================================================================
