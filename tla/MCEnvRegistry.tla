---------------------------- MODULE MCEnvRegistry ----------------------------
(***************************************************************************)
(* EnvRegistry with one entry of each kind, in the order of                *)
(* environment_variables, and a server process with a child.               *)
(***************************************************************************)
EXTENDS EnvRegistry

MCRegistry == <<
  [name |-> "VLLM_PORT", kind |-> "checked", from |-> "", ignored |-> TRUE],
  [name |-> "VLLM_USE_AOT_COMPILE", kind |-> "derived",
   from |-> "VLLM_DISABLE_COMPILE_CACHE", ignored |-> FALSE],
  [name |-> "VLLM_DISABLE_COMPILE_CACHE", kind |-> "checked", from |-> "", ignored |-> FALSE],
  [name |-> "VLLM_OBJECT_STORAGE_SHM_BUFFER_NAME", kind |-> "generated",
   from |-> "", ignored |-> TRUE]>>
=============================================================================
