-------------------------------- MODULE MCSoar --------------------------------
(***************************************************************************)
(* Soar for TLC: the shipped playbooks in the order of their files, and   *)
(* three files a team could drop in beside them: containment at tier 1, so *)
(* that the steps which stop and block run here too, a playbook with a     *)
(* misspelt step, and a file that does not parse.                          *)
(***************************************************************************)
EXTENDS Soar, TLC

Threats == {"threat", "lateral-movement", "defense-evasion", "privilege-escalation"}

Do(name, needs) == [name |-> name, needs |-> needs, hosts |-> {}, own |-> TRUE, expected |-> "active"]

OnFirewall(name) == [Do(name, {"srcip"}) EXCEPT !.hosts = {"network"}]

IsActive == Do("verify_service_state", {"agent", "service"})

IsInactive == [IsActive EXCEPT !.expected = "inactive"]

AgentIsActive == [Do("verify_service_state", {"agent"}) EXCEPT !.own = FALSE]

On(tier, rules, cats, min, steps) ==
  [readable |-> TRUE, tier |-> tier, recommended |-> TRUE, rules |-> rules, cats |-> cats, min |-> min, steps |-> steps]

MCFiles == <<
  [On("tier1", {}, {}, 1, <<>>) EXCEPT !.readable = FALSE],
  On("tier1", {}, {"pattern"}, 3, <<IsActive>>),
  On("tier1", {}, {"misspelt"}, 3, <<[IsActive EXCEPT !.name = "verify_service"]>>),
  On("tier0", {"531", "501", "502"}, {"infra"}, 3, <<Do("disk_clean", {"agent"}), AgentIsActive>>),
  On("tier1", {}, {"contain"}, 8, <<OnFirewall("firewall_block_ip"), OnFirewall("verify_firewall_rule"),
       Do("service_stop", {"agent", "service"}), IsInactive>>),
  On("tier2", {}, Threats, 8, <<OnFirewall("firewall_block_ip"), OnFirewall("verify_firewall_rule")>>),
  On("tier2", {}, Threats, 10, <<Do("service_stop", {"agent", "service"}), IsInactive>>),
  On("tier1", {}, {"operational"}, 5, <<Do("service_restart", {"agent", "service"}), IsActive>>),
  On("tier2", {"550", "553", "554"}, {"security"}, 5, <<Do("config_revert", {"agent", "path"}), IsActive>>),
  On("tier1", {}, {"security"}, 7, <<AgentIsActive, Do("config_revert", {"agent", "path"})>>),
  On("tier1", {}, {"infra"}, 4, <<IsActive>>)>>

Plain == [minter |-> "analyst", level |-> 6, category |-> "", class |-> "operational", rule |-> "40704", groups |-> {},
          title |-> "", techniques |-> FALSE, agent |-> "web", service |-> "nginx", srcip |-> "203.0.113.5", path |-> "",
          fields |-> {1, 2}, text |-> {}]

MCAlerts == {
  Plain,
  [Plain EXCEPT !.techniques = TRUE, !.agent = "vault"],
  [Plain EXCEPT !.class = "threat", !.level = 12, !.techniques = TRUE, !.fields = {3, 4}, !.text = {1, 2, 3}],
  [Plain EXCEPT !.class = "security", !.level = 7, !.title = "integrity", !.path = "/etc/passwd", !.fields = {1, 2, 4}, !.text = {3}],
  [Plain EXCEPT !.minter = "router", !.class = "contain", !.level = 12, !.groups = {"contain"}],
  [Plain EXCEPT !.class = "misspelt"],
  [Plain EXCEPT !.minter = "infra", !.class = "infra", !.rule = "531", !.title = "disk"]}

Knows(greynoise, virustotal, otx) == [greynoise |-> greynoise, virustotal |-> virustotal, otx |-> otx]

MCTypeOf == 1 :> "ip" @@ 2 :> "hash" @@ 3 :> "url" @@ 4 :> "none"

MCKeySets == {{"virustotal"}, {"virustotal", "otx"}}

\* What is known of the address, the hash and the URL: nothing; all is clean; VirusTotal
\* knows the hash, or the URL, to be malicious.
MCTruths ==
  {1 :> Knows(ip, "unknown", "unknown") @@ 2 :> Knows("unknown", hash, otx) @@ 3 :> Knows("unknown", url, "unknown")
     @@ 4 :> Knows("unknown", "unknown", "unknown") :
     <<ip, hash, url, otx>> \in {<<"unknown", "unknown", "unknown", "unknown">>, <<"benign", "benign", "benign", "suspicious">>,
                                <<"benign", "malicious", "benign", "unknown">>, <<"benign", "benign", "malicious", "unknown">>}}

Of(live) == [s \in Range(Sources) |-> IF s \in DOMAIN live THEN live[s] ELSE 0]

\* None; a pile of one scan; a scan and a beacon with what suricata saw; traces under the line.
MCVolumes == {
  Of(<<>>),
  Of("live_scan" :> 10 @@ "live_net" :> 10),
  Of("live_threat" :> 1 @@ "live_net" :> 1 @@ "suricata" :> 1000),
  Of("dns" :> 10 @@ "winsec" :> 100)}
=============================================================================
