----------------------------- MODULE MCStartup ------------------------------
(* Programs for TLC.  Readings: one custom flag of any kind, default and   *)
(* environment, under command lines of up to two arguments.  Programs: two *)
(* Apps that make servers and clients, with paths of their own, from a     *)
(* flag, or none.                                                          *)
EXTENDS Startup

Field(kind, default) == [key |-> "f", kind |-> kind, default |-> default]
Args == SeqOf([key : {"f", "unknown"}, text : {"0", "true", "x"}], 2)
Envs == {<<>>} \cup {"f" :> t : t \in {"", "1", "true"}}

One == <<[init |-> <<>>, posts |-> <<>>]>>

Program(table, custom, config, apps, env, args) ==
  [table |-> table, custom |-> custom, config |-> config, tasks |-> 1, apps |-> apps,
   env |-> env, args |-> args]

Readings ==
  {Program(TRUE, <<Field(k, d)>>, FALSE, One, env, args) :
     k \in Kinds \cup {"float"}, d \in {None, "", "true", "7"}, env \in Envs, args \in Args}
  \cup {Program(FALSE, <<>>, FALSE, One, <<>>, <<>>),
        Program(TRUE, <<Field("int", "7"), Field("int", "7")>>, FALSE, One, <<>>, <<>>)}

Server(path) == [side |-> "server", path |-> path]
Client(path) == [side |-> "client", path |-> path]

PathFlag == <<[key |-> "etcd_path", kind |-> "string", default |-> ""]>>
PathEnvs == {<<>>, "etcd_path" :> "/e", "boot_config_file" :> "f.yaml"}

OfFlag == <<[init |-> <<Server("etcd_path"), Client("/b")>>, posts |-> <<Client("etcd_path")>>],
            [init |-> <<Server("")>>, posts |-> <<Client("")>>]>>

OfOwn  == <<[init |-> <<Server("/a"), Client("/a")>>, posts |-> <<Client("/b"), Client("")>>],
            [init |-> <<Client(""), Server("/b")>>, posts |-> <<Client("/a"), Client("/b")>>]>>

Programs == {Program(TRUE, PathFlag, TRUE, apps, env, <<>>) : apps \in {OfFlag, OfOwn}, env \in PathEnvs}

ReadingsAndPrograms == Readings \cup Programs

AllMayFail == {"config", "task", "init", "etcd"}
=============================================================================
