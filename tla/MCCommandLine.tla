--------------------------- MODULE MCCommandLine ---------------------------
EXTENDS CommandLine, CmdRuns, CmdCluster, CmdMigrate, TLC

MCPrograms == RunCommands @@ ClusterCommands @@ DetectCommands @@ DeployCommands @@ ReportCommands
    @@ MigrateCommands
MCQuietFailures ==
    {"connectTestCmd", "runDoctorNetwork", "runDoctorDns", "runDetect", "runAuto", "runHelmTests",
     "scaffoldExportCmd", "initCmd", "benchmarkCmd"}
MCLeavesBehind ==
    {<<"runDoctorNetwork", "probe pod">>, <<"runDoctorDns", "probe pod">>,
     <<"runDetect", "dns-detect pod">>, <<"runAuto", "dns-detect pod">>, <<"runDeploy", "dns-detect pod">>,
     <<"runAuto", "probe namespace">>, <<"runDeploy", "probe namespace">>, <<"runUpgrade", "kates.tmp">>,
     <<"runMigrateTarget", "client pod">>, <<"runMigrateStatus", "client pod">>,
     <<"runMigrateVerify", "client pod">>, <<"runMigrateCutover", "client pod">>}
MCLeavesUnheard ==
    {<<c, "dns-detect pod">> : c \in {"runDetect", "runAuto", "runDeploy"}}
    \union {<<c, "probe namespace">> : c \in {"runDetect", "runAuto", "runDeploy"}}
    \union {<<c, "probe pod">> : c \in {"runDoctorNetwork", "runDoctorDns"}}
    \union {<<c, "client pod">> :
               c \in {"runMigrateTarget", "runMigrateStatus", "runMigrateVerify", "runMigrateCutover"}}
MCUnasked ==
    {"testDeleteCmd", "scheduleDeleteCmd", "disruptionScheduleDeleteCmd", "baselineUnsetCmd", "webhookRemoveCmd",
     "connectDeleteCmd", "runChartsPull"}
MCLeavesItsRun == {"connectTestCmd", "flowRunCmd", "tuneRunCmd"}
MCChangesFirst == {"kyvernoApplyCmd", "runDeploy"}
=============================================================================
