---------------------------- MODULE MCProjectPlan ----------------------------
(***************************************************************************)
(* Instances of ProjectPlan for TLC: every few ecosystems in one directory *)
(* under --yes, and every flag with every setting of rynk.yaml and every   *)
(* change in the popup in a few directories.                               *)
(***************************************************************************)
EXTENDS ProjectPlan

CONSTANTS MaxEcosystems  \* bound: ecosystems in one directory

Ecosystems ==
  {{{"package.json"}, {"package.json", "entry"}, {"package.json", "script"},
    {"package.json", "framework"}, {"package.json", "script", "framework"},
    {"package.json", "script", "framework", "calls-framework"}},
   {{"requirements.txt"}, {"requirements.txt", "main.py"}, {"main.py"}, {"manage.py"},
    {"requirements.txt", "django"}, {"requirements.txt", "fastapi"},
    {"requirements.txt", "fastapi", "FastAPI()", "main.py"}, {"requirements.txt", "streamlit"},
    {"requirements.txt", "gradio"}, {"requirements.txt", "flask"}},
   {{"go.mod"}}, {{"Cargo.toml"}, {"Cargo.toml", "rocket"}},
   {{"pom.xml"}, {"pom.xml", "spring-boot"}, {"build.gradle"}, {"build.gradle", "quarkus"}},
   {{"composer.json"}, {"artisan", "composer.json"}, {"index.php"}},
   {{"Gemfile"}, {"Gemfile", "rails"}, {"config.ru"}}, {{"csproj"}, {"csproj", "Sdk.Web"}},
   {{"deno.json"}, {"deno.json", "deno-task"}}, {{"Dockerfile"}, {"Dockerfile", "EXPOSE"}},
   {{"compose.yaml"}, {"compose.yaml", "ports"}},
   {{"Procfile"}, {"Procfile", "web:"}, {"Procfile", "web:", "shell-syntax"}},
   {{"index.html"}, {"dist/index.html"}}, {{"build.zig"}, {"CMakeLists.txt"}, {"Makefile"}}}

Directories[n \in 0 .. MaxEcosystems] ==
  IF n = 0 THEN {{}}
  ELSE LET some == Directories[n - 1]
       IN  some \cup {d \cup v : d \in some, v \in UNION Ecosystems}

FlagValues ==
  ("command" :> {"flag"}) @@ ("port" :> {1}) @@ ("host" :> {"auto", "flag"})
    @@ ("runtime" :> {"auto", "native", "docker", "static", "custom"}) @@ ("name" :> {"flag"})
    @@ [f \in {"local", "lan", "public", "protected", "no-advertise", "no-restart", "no-health-check"}
          |-> {TRUE}]
    @@ ("network" :> {"flag"}) @@ ("maxUsers" :> {0, 1})

YamlValues ==
  ("command" :> {"yaml"}) @@ ("port" :> {2}) @@ ("host" :> {"yaml"}) @@ ("name" :> {"yaml"})
    @@ ("runtime" :> {"auto", "native", "docker", "static"}) @@ ("exposure" :> {"local", "lan", "public"})
    @@ ("maxUsers" :> {0, 2}) @@ ("mode" :> {"open", "protected"}) @@ ("advertise" :> BOOLEAN)
    @@ ("invalid" :> {TRUE}) @@ ("restart" :> {"never", "always"}) @@ ("health" :> {"tcp", "process", "none"})

FormValues ==
  ("name" :> {Absent, "popup"}) @@ ("command" :> {Absent, "popup"}) @@ ("runtime" :> {"docker", "static", "custom"})
    @@ ("port" :> {0, 3}) @@ ("host" :> {"auto", "popup"}) @@ ("network" :> {"other-address"})
    @@ ("exposure" :> {"local", "lan", "public"}) @@ ("maxUsers" :> {0, 3})
    @@ [f \in {"protected", "autoRestart", "healthCheck", "advertise"} |-> BOOLEAN]

\* At most one of the values is given.
OneOf(values) == {Nothing} \cup UNION {{f :> v : v \in values[f]} : f \in DOMAIN values}

Ecosystem ==
  /\ files \in Directories[MaxEcosystems] /\ named = FALSE
  /\ flags \in {("yes" :> TRUE) @@ r : r \in OneOf("runtime" :> {"native", "docker", "custom"})}
  /\ yaml = Nothing

Configuration ==
  /\ files \in {{}, {"package.json"}, {"package.json", "script", "Dockerfile"}, {"index.html"}}
  /\ named = ("package.json" \in files)
  /\ flags \in {a @@ b @@ c : a \in OneOf(FlagValues), b \in OneOf("public" :> {TRUE}),
                             c \in OneOf([f \in {"popup", "yes"} |-> {TRUE}])}
  /\ yaml \in OneOf(YamlValues)

MCInit == Invoked /\ (Ecosystem \/ Configuration)

\* Next, with the changes of FormValues.
MCNext ==
  \/ Refuse \/ Ask \/ AskNothing \/ Cancel \/ HostProject
  \/ \E change \in OneOf(FormValues) : Confirm(change @@ form)

MCSpec == MCInit /\ [][MCNext]_planVars
=============================================================================
