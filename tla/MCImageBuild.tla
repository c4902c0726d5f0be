---------------------------- MODULE MCImageBuild ----------------------------
(***************************************************************************)
(* ImageBuild with the stages, the scripts and the files of the            *)
(* repository; of the edits of a file there are at most two.               *)
(***************************************************************************)
EXTENDS ImageBuild

E(name, keeps) == [name |-> name, keeps |-> keeps]
P(script, marker, edits) == [script |-> script, marker |-> marker, edits |-> edits]
Command == P("command", "none", <<>>)
Stage(tag, base, patches) == [tag |-> tag, base |-> base, patches |-> patches]

MCStages == <<
  Stage("v1", Upstream, <<
    P("v1", "none", <<E("candidates", FALSE)>>),
    P("v1", "none", <<E("capability", FALSE), E("backend", FALSE)>>)>>),
  Stage("v2", "v1", <<P("v2", "none", <<E("nan hooks", TRUE)>>)>>),
  Stage("v3", "v1", <<Command>>),
  Stage("v4", "v3", <<Command>>),
  Stage("v5", "v4", <<Command>>),
  Stage("v6", "v5", <<P("v6", "none", <<E("pdl", FALSE)>>)>>),
  Stage("v7", "v6", <<
    P("patch_v7", "none", <<E("prefill topk", FALSE), E("decode topk", FALSE)>>),
    P("patch_v7", "none", <<E("expansion guard", FALSE)>>)>>),
  Stage("v8", "v7", <<
    P("patch_v8_fp8", "none", <<E("tile", FALSE)>>),
    P("patch_v8_fp8", "none", <<E("gate", FALSE)>>)>>),
  Stage("v9", "v8", <<Command>>)>>

MCOverlay == Stage("v12", "v8", <<
  P("registry", "edit", <<E("registry", TRUE)>>),
  P("registry", "edit", <<E("selection", TRUE)>>),
  P("registry", "edit", <<E("causal", FALSE), E("subclass", FALSE)>>),
  P("aux", "file", <<E("imports", TRUE), E("loop", FALSE)>>),
  P("drafter group", "file", <<E("groups", FALSE), E("layout", FALSE)>>),
  P("prefix cache", "none", <<E("helpers", TRUE), E("hit", FALSE)>>),
  P("prefix cache", "none", <<>>),
  Command>>)

MCDrifts == {{}, {"expansion guard"}, {"subclass"}, {"loop"}, {"hit"}}
=============================================================================
