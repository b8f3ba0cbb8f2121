---------------------------- MODULE MCStageWork ----------------------------
(* StageWork on two stages that run in parallel and one that needs both.   *)
EXTENDS StageWork

Literal(v) == [from |-> "literal", at |-> "", value |-> v]
StepOut(i) == [from |-> "step", at |-> i, value |-> ""]
NeedOut(s) == [from |-> "need", at |-> s, value |-> ""]

NoRef == [form |-> "none", slug |-> "", version |-> ""]
Ref(slug, version) == [form |-> "plugin", slug |-> slug, version |-> version]
Secret(upper) == [word |-> "token", upper |-> upper]

Plain == [id |-> "", kind |-> "shell", name |-> "", with |-> NoTemplate, ref |-> NoRef,
          secrets |-> {}, keys |-> {}]
Upload(n)   == [Plain EXCEPT !.kind = "upload", !.id = "up", !.name = n]
Download(t) == [Plain EXCEPT !.kind = "download", !.with = t]
Plugin(ref, keys) == [Plain EXCEPT !.kind = "plugin", !.id = "tag", !.ref = ref, !.keys = keys]

Stage(steps, out) == [steps |-> steps, uses |-> <<>>, out |-> out]

MCStages == {"a", "b", "c"}
MCNeeds  == [s \in MCStages |-> IF s = "c" THEN {"a", "b"} ELSE {}]

\* The documented way to pass an artifact on, two uploads of one name (as the
\* instances of a matrix make them), and plugins with and without their secret.
MCPrograms == {
    [s \in MCStages |->
        CASE s = "a" -> Stage(<<Upload("dist")>>, StepOut("up"))
          [] s = "b" -> Stage(<<Upload("dist")>>, Literal("text"))
          [] s = "c" -> Stage(<<Download(NeedOut("a"))>>, NoTemplate)],
    [s \in MCStages |->
        CASE s = "a" -> Stage(<<Upload("site")>>, Literal("site"))
          [] s = "b" -> Stage(<<Plain>>, Literal("text"))
          [] s = "c" -> Stage(<<Download(NeedOut("a")), [Plain EXCEPT !.kind = "empty"]>>, NeedOut("a"))],
    [s \in MCStages |->
        CASE s = "a" -> Stage(<<Plugin(Ref("x/scan", "latest"), {Secret(FALSE)})>>, StepOut("tag"))
          [] s = "b" -> Stage(<<Plugin(Ref("x/scan", "1"), {})>>, NoTemplate)
          [] s = "c" -> [steps |-> <<>>, out |-> NeedOut("a"),
                         uses |-> <<[Plain EXCEPT !.kind = "plugin",
                                                  !.ref = [NoRef EXCEPT !.form = "local"]]>>]]}

Action(needs) == [name |-> "scan", using |-> "container", image |-> "i", steps |-> 0,
                  permissions |-> {}, types |-> {""}, needs |-> needs,
                  prints |-> <<[marked |-> TRUE, name |-> "tag", value |-> "old"],
                               [marked |-> TRUE, name |-> "tag", value |-> "text"]>>]

MCPlugins  == {[slug |-> "x/scan", official |-> TRUE, verified |-> TRUE, deleted |-> FALSE]}
MCVersions == {[id |-> 1, slug |-> "x/scan", version |-> "1", latest |-> FALSE, action |-> Action({Secret(TRUE)})],
               [id |-> 2, slug |-> "x/scan", version |-> "2", latest |-> TRUE, action |-> Action({Secret(TRUE)})]}
=============================================================================
