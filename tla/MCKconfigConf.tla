--------------------------- MODULE MCKconfigConf ---------------------------
EXTENDS KconfigConf, KconfigPrograms

\* Every mode, before the modes whose result depends on what it has left.
MCPlans ==
  {<<m, "savedef", "def">> : m \in {"allno", "allyes", "allmod", "alldef"}}
  \cup {<<"old", "silentold", "savedef", "def">>,
        <<"oldask", "silentold">>,
        <<"silentold", "allno", "silentold">>,
        <<"rand", "silentold">>,
        <<"listnew", "olddef", "silentold", "silentold">>}
=============================================================================
