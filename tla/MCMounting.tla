---- MODULE MCMounting ----
(***************************************************************************)
(* Instances of Mounting: two calls of Mount, a few configurations and     *)
(* kernels.                                                                *)
(***************************************************************************)
EXTENDS Mounting

\* Backslashes, but no commas.
Plain == [ReadOnly |-> FALSE, DisableDefaultPermissions |-> TRUE, FSName |-> <<>>, Subtype |-> <<>>,
          VolumeName |-> <<"vol">>, EnableVnodeCaching |-> TRUE, Options |-> <<"b", "\\">> :> <<"v", "\\">>,
          features |-> {"WritebackCache"}]

\* Read only, with options that set, lift and keep mount flags, and a key to escape.
ReadOnlyConfig == [Plain EXCEPT !.ReadOnly = TRUE, !.FSName = <<"name">>,
                   !.Options = Key("dev") :> <<>> @@ Key("noatime") :> <<>> @@ <<"a", ",", "\\">> :> <<"v">>,
                   !.features = Unconditional \cup IfOffered]

\* The volume name holds a comma; "rw" contradicts nothing.
CommaConfig == [Plain EXCEPT !.VolumeName = <<"a", ",", "b">>, !.Subtype = <<"sub">>,
                !.DisableDefaultPermissions = FALSE, !.EnableVnodeCaching = FALSE,
                !.Options = Key("rw") :> <<>> @@ Key("suid") :> <<>>,
                !.features = {"NoOpenSupport"}]

MCConfigs == {Plain, ReadOnlyConfig, CommaConfig}
OneConfig == {Plain}

MCKernels == {[version |-> v, flags |-> f] :
                  v \in {<<6, 40>>, <<7, 17>>, <<7, 18>>, <<7, 34>>, <<8, 0>>},
                  f \in {{}, IfOffered \ {"CacheSymlinks"}}}
====
