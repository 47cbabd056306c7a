----------------------------- MODULE MCCommands -----------------------------
\* Command lines for Commands.
EXTENDS Commands

LogsLine(agent, source, probe, grep) ==
  [cmd |-> "logs", agent |-> agent, source |-> source, probe |-> probe, grep |-> grep]
MetricsLine(agent, endpoint, port, path, via, tail) ==
  [cmd |-> "metrics", agent |-> agent, endpoint |-> endpoint, port |-> port, path |-> path,
   via |-> via, tail |-> tail]

Sources   == {"", "list", "journal", "ipamd", "plugin", "egress-v6", "policy", "bpf", "other"}
Endpoints == {"", "metrics", "healthz", "health", "cadvisor", "resource", "introspect",
              "ready", "other"}

\* Every alias and unit of TOOL.md, and an agent that it does not list.
Agents == UNION {{w.alias, w.unit} : w \in Manual} \cup {Bare("custom"), Service("custom")}

\* Every agent with every source and endpoint; every combination of the metrics
\* flags; each kind of log source with its probe, and with each pattern; exec.
Lines ==
  {LogsLine(a, s, FALSE, "bad") : a \in Agents, s \in Sources}
  \cup {MetricsLine(a, e, 0, "", "", FALSE) : a \in Agents, e \in Endpoints}
  \cup {LogsLine(a, "", TRUE, g) : a \in {Bare("ipamd"), Service("kubelet"), Bare("custom")},
                                   g \in {"", "bad"}}
  \cup {LogsLine(Bare("ipamd"), "", FALSE, g) : g \in {"", "regex"}}
  \cup {MetricsLine(Bare("kubelet"), e, p, q, v, t) :
          e \in {"", "healthz"}, p \in {0, 9100}, q \in {"", "/custom"},
          v \in {"", "apiserver", "node", "other"}, t \in BOOLEAN}
  \cup {[cmd |-> "exec"]}

\* The journal of one unit.
Journals == {LogsLine(Bare("kubelet"), "", TRUE, "")}
=============================================================================
