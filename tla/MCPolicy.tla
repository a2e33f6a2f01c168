------------------------------ MODULE MCPolicy ------------------------------
(***************************************************************************)
(* The configurations and the utterances of the small instances.           *)
(***************************************************************************)
EXTENDS AgentPolicy, TLC

\* config/agents.yaml
AgentsYaml ==
    [profiles |-> {"private-main", "private-long-context", "public-vision"},
     agents |->
        "main-agent" :> [profile |-> "private-main", tools |->
            {"search_security_knowledge", "request_human_review"}]
     @@ "security-researcher" :> [profile |-> "private-long-context", tools |->
            {"search_security_knowledge", "request_human_review"}]
     @@ "ops-troubleshooter" :> [profile |-> "private-main", tools |->
            {"query_device_status", "search_security_knowledge", "create_security_todos",
             "update_task_status", "request_human_review", "archive_episode"}]
     @@ "alarm-analyst" :> [profile |-> "private-main", tools |->
            {"query_alarm_events", "search_security_knowledge", "create_security_todos",
             "update_task_status", "request_human_review", "archive_episode"}]
     @@ "object-analyst" :> [profile |-> "public-vision", tools |->
            {"analyze_security_object", "search_security_knowledge",
             "request_human_review"}]]

\* The agents, profiles and tools of the sample in docs/04, section 3.2, given
\* the descriptions that it leaves out and that SubAgentSpec requires.
SampleOfDocs04 ==
    [profiles |-> {"private-main", "private-long-context", "public-vision"},
     agents |->
        "security-researcher" :> [profile |-> "private-long-context", tools |->
            {"search_security_knowledge"}]
     @@ "ops-troubleshooter" :> [profile |-> "private-main", tools |->
            {"search_security_knowledge", "query_device_status",
             "create_security_todos", "request_human_review"}]
     @@ "alarm-analyst" :> [profile |-> "private-main", tools |->
            {"search_security_knowledge", "query_alarm_events",
             "create_security_todos", "request_human_review"}]
     @@ "object-analyst" :> [profile |-> "public-vision", tools |->
            {"analyze_security_object", "search_security_knowledge"}]]

\* Configurations a mistake in agents.yaml leads to: a profile, a tool or an
\* agent's right to a tool that does not exist, and a file that is empty.
Mistaken ==
    {[AgentsYaml EXCEPT !.agents["main-agent"].profile = "main"],
     [AgentsYaml EXCEPT !.agents["object-analyst"].tools = @ \cup {"delete_device"}],
     [AgentsYaml EXCEPT !.agents["main-agent"].tools = @ \cup {"create_security_todos"}],
     [profiles |-> {}, agents |-> <<>>]}

OnlyAgentsYaml == {AgentsYaml}
OnlySample == {SampleOfDocs04}
AgentsYamlOrSample == {AgentsYaml, SampleOfDocs04}
AnyConfiguration == {AgentsYaml, SampleOfDocs04} \cup Mistaken

Says(risky, topics) == [risky |-> risky, topics |-> topics, image |-> FALSE]

\* One high-risk and one harmless message.
RiskyOrPlain == {Says(TRUE, {"device"}), Says(FALSE, {"device"})}
\* The same for agents of different kinds: the main agent, which needs no
\* handoff, and those with one.
RiskyOrGeneral == {Says(TRUE, {"knowledge"}), Says(FALSE, {})}
\* Both kinds, with a message for the main agent, which the sample lacks.
RiskyPlainOrGeneral == RiskyOrPlain \cup {Says(FALSE, {})}
\* Every utterance the router and the gate tell apart.
AnyUtterance == Utterances
=============================================================================
