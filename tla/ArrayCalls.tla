----------------------------- MODULE ArrayCalls ------------------------------
(***************************************************************************)
(* CRESTCmd (CmdAdapter/CmdRESTAdapter.cpp): how each call talks to an     *)
(* OceanStor array.                                                        *)
(***************************************************************************)
EXTENDS RestProfile

----------------------------------------------------------------------------
(* The array itself. *)
CMD_showarrayinfo == <<Show>>
CMD_showarraystretched == <<Show>>
CMD_showsys == <<Find>>
CMD_showarraymodelinfo == <<Find>>
CMD_showtlvsysinfo == CMD_showarraymodelinfo \o CMD_showsys

----------------------------------------------------------------------------
(* LUNs, file systems and shares. *)
CMD_showlun == <<Find>>
CMD_showlun_all == <<Pages>>
CMD_showLIF == <<Pages>>

(* Ranges of SPECIAL_RANGE_COUNT are asked for, and a further one only      *)
(* after RECOMMEND_RANGE_COUNT rows.                                        *)
CMD_shownfs == <<[Pages EXCEPT !.ask = SPECIAL_RANGE_COUNT]>>
CMD_shownfs_byfsid ==
  <<[Pages EXCEPT !.ask = SPECIAL_RANGE_COUNT, !.lost = "again"]>>
CMD_showfs == <<Find>> \o Ignored(CMD_shownfs)

(* A share there already is not added again. *)
CMD_addnfs == CMD_showfs \o Checked(<<Change>>)
CMD_delnfs == Checked(<<Change>>)
CMD_addnfsclient == <<Change>>

----------------------------------------------------------------------------
(* Snapshots and clones. *)
CMD_createhyimg == <<Change>>
CMD_createFShyimg == <<Change>>
CMD_delhyimg == <<Change>>
CMD_delFShyimg == Checked(<<Change>>)
CMD_activehyimg == <<Change>>
CMD_activehyimg_list == <<Change>>
CMD_disablehyimg == <<Change>>
CMD_recreatehyimg == CMD_disablehyimg \o CMD_activehyimg
CMD_recreatehyimg_group == CMD_recreatehyimg
CMD_showhyimginfo == <<Find>>
CMD_showFShyimginfo == <<Find>>
CMD_showhyimgoflun == <<[Find EXCEPT !.row = {"error"}]>>
CMD_showhyimgoffs == <<[Pages EXCEPT !.spent = "ok"]>>
CMD_showlunforhyimg == <<Show>>
CMD_createCloneFS == <<Change>>
CMD_delclonefs == Checked(<<Change>>)

(* A lost request falls through to the error code of the package. *)
CMD_showClonefsOffs == <<[Show EXCEPT !.lost = "error", !.spent = "ok"]>>

(* The arrays of the supported versions only. *)
CMD_showarrayclonefs == CMD_showsys

----------------------------------------------------------------------------
(* Replication pairs. *)
CMD_synchymirror == <<Change>>
CMD_splithymirror == <<Change>>

CMD_swaphymirror_Hopeful == <<[Change EXCEPT !.spent = "ok"]>>
CMD_swaphymirror == <<Change>>

CMD_changeSlaveFsRw == <<Change>>
CMD_changeSlaveLunRw == <<Change>>
CMD_showhymirrorinfo == <<Find>>
CMD_showhymirrorlun == <<Find>> \o CMD_showsys
CMD_showhymirrorlun_all ==
  <<Find>> \o CMD_showsys \o Optional(CMD_showlun)
CMD_showhymirrorlun_all_fs ==
  <<Find>> \o CMD_showsys \o Optional(CMD_showfs)
CMD_showhymirrorfs_all ==
  <<Find>> \o CMD_showsys \o Optional(Ignored(CMD_showfs))
CMD_showhymirrorbyfs == <<Find>> \o CMD_showsys

(* The rows read before a page was lost, or before the LUN of a row was not *)
(* answered, stay in the list.                                              *)
CMD_showhymirrorinfo_all == <<[Pages EXCEPT !.keeps = TRUE, !.row = {"next"}]>>

----------------------------------------------------------------------------
(* HyperMetro pairs and domains. *)
CMD_disablehcpair == <<Change>>
CMD_swaphypermetro == <<Change>>
CMD_synchmpair == <<Change>>
CMD_showhyperMetroDomain_all == <<Find>>
CMD_showconsistgrhminfo == <<Find>> \o Ignored(CMD_showhyperMetroDomain_all)
CMD_showhypermetroinfo ==
  <<Find>> \o Optional(Ignored(CMD_showconsistgrhminfo))
CMD_showHyperMetroPair_all == <<Pages>>
CMD_showhypermetrolun_all ==
  <<Find>> \o CMD_showsys \o Optional(CMD_showconsistgrhminfo)
    \o Ignored(CMD_showhyperMetroDomain_all)

----------------------------------------------------------------------------
(* Consistency groups, HyperMetro groups and vStore pairs. *)
CMD_changeCGSlaveLunRw == <<Change>>
CMD_changeVstorePairSlaveLunRw == <<Change>>
CMD_syncconsistgr == <<Change>>
CMD_syncconsistgrhm == <<Change>>
CMD_syncvstorepair == <<Change>>
CMD_swapconsistgr == <<Patient>>
CMD_swapvstorepair == <<Patient>>
CMD_swapconsistgrhm == <<Patient>>
CMD_splitconsistgr == <<Patient>>
CMD_splitvstorepair == <<Patient>>
CMD_stopconsistgrhm == <<Patient>>
CMD_showconsistgrinfo == <<Find>>
CMD_showvstorepair_info == <<Find>>
CMD_showconsistgrmember == <<Pages>>
CMD_showvstorepairmember == <<Pages>>
CMD_showlunsbyconsisid == <<Show>>

----------------------------------------------------------------------------
(* Hosts, ports and initiators. *)
(* In the view of a vStore hosts and views are not asked for.                *)
CMD_showhost_all == Checked(<<Pages>>)
CMD_showhost == Checked(<<Show>>)
CMD_showhost_byname == <<Show>>
CMD_createHost == <<Change>>
CMD_showInitiatorInfo == Checked(<<Show>>)
CMD_addInitiatorToHost == Checked(<<Change>>)
CMD_removeInitiatorFromHost == Checked(<<Change>>)
CMD_showiscsihostport == <<Pages>>
CMD_showfchostport == <<Pages>>
CMD_showhostlink == <<Pages>>
CMD_showhostport ==
  Ignored(CMD_showiscsihostport) \o Optional(CMD_showfchostport)

----------------------------------------------------------------------------
(* LUN groups, host groups and mapping views. *)
CMD_CreateLunGroup == <<Change>>
CMD_CreateHostGroup == <<Change>>
CMD_createMappingView == <<Change>>
CMD_addLun2LunGroup == <<Change>>
CMD_addHostsToHostGroup == <<Change>>
CMD_associateToMappingview == <<Change>>
CMD_delLunFromLunGroup == <<Change>>
CMD_removeHostFromHostGroup == <<Change>>
CMD_delHostFromHostGroup == <<Change>>
CMD_removeLunGroupFromMap == <<Change>>
CMD_removeHostGroupFromMap == <<Change>>
CMD_delMappingByMapID == <<Change>>
CMD_delMapping ==
  Checked(Optional(CMD_removeHostGroupFromMap)) \o
    Optional(CMD_removeLunGroupFromMap) \o CMD_delMappingByMapID
CMD_delLunGroup == Optional(CMD_delLunFromLunGroup) \o <<Change>>
CMD_delHostGroup == Optional(CMD_delHostFromHostGroup) \o <<Change>>

(* When no address answers, these report success and nothing found. *)
Hopeful == [Show EXCEPT !.spent = "ok"]
CMD_showLunGroupByMap == <<Hopeful>>
CMD_showHostGroupByMap == <<Hopeful>>
CMD_showLUNGroupByName == <<Hopeful>>
CMD_showHostGroupByName == <<Hopeful>>
CMD_showMappingByName == <<Hopeful>>
CMD_showMapByHostGroup == <<Hopeful>>
CMD_showLunGroupByLUN == <<Hopeful>>

CMD_showMapbyLunGroup == <<Show>>
CMD_showMapbyHostGroup == <<Show>>
CMD_showHostbyHostGroup == <<Show>>
CMD_showHostGroupByHost_all == <<Show>>
CMD_showHostGroupByHost == <<Find>>
CMD_showHostByHostGroup == <<Pages>>
CMD_showHostByLUN == <<Show>>
CMD_showLunByLunGroup == <<Pages>>
CMD_showSnapShotByLUNGroup == <<Pages>>

(* Requests on the connection of an enclosing call go to no other address. *)
OnConnection(part) == [part EXCEPT !.lost = "error"]
CMD_showLunGroupByMap_conn == <<OnConnection(Show)>>
CMD_showHostGroupByMap_conn == <<OnConnection(Find)>>
CMD_showLunByLunGroup_conn == <<OnConnection(Pages)>>

(* The views of one host, and all of them: a view whose groups are not      *)
(* answered is left out.                                                    *)
CMD_showmap_byhost ==
  Optional(CMD_showhost_all) \o Checked(<<Find>>) \o CMD_showLunGroupByMap
    \o CMD_showHostGroupByMap \o Optional(CMD_showLunByLunGroup)
    \o Optional(CMD_showSnapShotByLUNGroup)
CMD_showmap == CMD_showsys \o Checked(<<[Show EXCEPT !.row = {"left"}]>>)

----------------------------------------------------------------------------
(* The calls of the adapter. *)
Supported ==
  {CMD_showarrayinfo, CMD_showarraystretched, CMD_showsys,
   CMD_showarraymodelinfo, CMD_showtlvsysinfo, CMD_showlun,
   CMD_showlun_all, CMD_showLIF, CMD_shownfs, CMD_shownfs_byfsid,
   CMD_showfs, CMD_addnfs, CMD_delnfs, CMD_addnfsclient, CMD_createhyimg,
   CMD_createFShyimg, CMD_delhyimg, CMD_delFShyimg, CMD_activehyimg,
   CMD_activehyimg_list, CMD_disablehyimg, CMD_recreatehyimg,
   CMD_recreatehyimg_group, CMD_showhyimginfo, CMD_showFShyimginfo,
   CMD_showhyimgoflun, CMD_showhyimgoffs, CMD_showlunforhyimg,
   CMD_createCloneFS, CMD_delclonefs, CMD_showClonefsOffs,
   CMD_showarrayclonefs, CMD_synchymirror, CMD_splithymirror,
   CMD_swaphymirror, CMD_changeSlaveFsRw, CMD_changeSlaveLunRw,
   CMD_showhymirrorinfo, CMD_showhymirrorlun, CMD_showhymirrorlun_all,
   CMD_showhymirrorlun_all_fs, CMD_showhymirrorfs_all,
   CMD_showhymirrorbyfs, CMD_showhymirrorinfo_all, CMD_disablehcpair,
   CMD_swaphypermetro, CMD_synchmpair, CMD_showhyperMetroDomain_all,
   CMD_showconsistgrhminfo, CMD_showhypermetroinfo,
   CMD_showHyperMetroPair_all, CMD_showhypermetrolun_all,
   CMD_changeCGSlaveLunRw, CMD_changeVstorePairSlaveLunRw,
   CMD_syncconsistgr, CMD_syncconsistgrhm, CMD_syncvstorepair,
   CMD_swapconsistgr, CMD_swapvstorepair, CMD_swapconsistgrhm,
   CMD_splitconsistgr, CMD_splitvstorepair, CMD_stopconsistgrhm,
   CMD_showconsistgrinfo, CMD_showvstorepair_info,
   CMD_showconsistgrmember, CMD_showvstorepairmember,
   CMD_showlunsbyconsisid, CMD_showhost_all, CMD_showhost,
   CMD_showhost_byname, CMD_createHost, CMD_showInitiatorInfo,
   CMD_addInitiatorToHost, CMD_removeInitiatorFromHost,
   CMD_showiscsihostport, CMD_showfchostport, CMD_showhostlink,
   CMD_showhostport, CMD_CreateLunGroup, CMD_CreateHostGroup,
   CMD_createMappingView, CMD_addLun2LunGroup, CMD_addHostsToHostGroup,
   CMD_associateToMappingview, CMD_delLunFromLunGroup,
   CMD_removeHostFromHostGroup, CMD_delHostFromHostGroup,
   CMD_removeLunGroupFromMap, CMD_removeHostGroupFromMap,
   CMD_delMappingByMapID, CMD_delMapping, CMD_delLunGroup,
   CMD_delHostGroup, CMD_showLunGroupByMap, CMD_showHostGroupByMap,
   CMD_showLUNGroupByName, CMD_showHostGroupByName, CMD_showMappingByName,
   CMD_showMapByHostGroup, CMD_showLunGroupByLUN, CMD_showMapbyLunGroup,
   CMD_showMapbyHostGroup, CMD_showHostbyHostGroup,
   CMD_showHostGroupByHost_all, CMD_showHostGroupByHost,
   CMD_showHostByHostGroup, CMD_showHostByLUN, CMD_showLunByLunGroup,
   CMD_showSnapShotByLUNGroup, CMD_showLunGroupByMap_conn,
   CMD_showHostGroupByMap_conn, CMD_showLunByLunGroup_conn,
   CMD_showmap_byhost, CMD_showmap}
=============================================================================
