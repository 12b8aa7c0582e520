-------------------------- MODULE InstallServices --------------------------
(***************************************************************************)
(* The install services of an installadm server and their clients:         *)
(* installadm.py, service.py, service_config.py, create_, delete_,         *)
(* rename_ and set_service.py, create_ and delete_client.py,               *)
(* client_control.py, grub.py, ai_smf_service.py.                          *)
(*                                                                         *)
(* One action is one installadm command.  A command works on a snapshot S  *)
(* of the state; every function of the code is an operator that takes S    *)
(* and returns it changed, and S.err names the exception that is           *)
(* travelling: an operator applied to a state with an exception returns it *)
(* unchanged.  A command meets at most one kind of fault, S.fault, which   *)
(* makes every operation of that kind fail.                                *)
(***************************************************************************)
EXTENDS DhcpServer, Functions

CONSTANTS AutoNames,   \* the names create-service picks from, in order
          ChosenNames, \* names an administrator gives
          OtherPaths,  \* image paths outside the default directory
          Macs,        \* clients
          BootArgs,    \* boot arguments of a service or a client
          Faults       \* kinds of fault a command may meet, "none" included

DefaultName(arch) == IF arch = "i386" THEN "default-i386" ELSE "default-sparc"
DefaultArch == {DefaultName(a) : a \in Archs}
Names == ToSet(AutoNames) \cup ChosenNames \cup DefaultArch
(* The default image path of a service is named after it.                  *)
Paths == Names \cup OtherPaths

VARIABLES svc,     \* the .config file of each service directory
          menu,    \* menu.lst of each x86 service
          mnt,     \* what is mounted under /etc/netboot/<service>, from where
          images,  \* the AI image at each path
          cfiles,  \* the boot files of each client under /etc/netboot
          smfState,\* svc:/system/install/server
          invalid, \* services with a manifest or profile their image rejects
          clean    \* no command has met a fault so far
ismVars == <<svc, menu, mnt, images, cfiles, smfState, invalid, clean,
             dhcp>>

NoService == [alias |-> "none", path |-> "none", status |-> "absent",
              args |-> "", clients |-> << >>]
NoMenu == [name |-> "none", media |-> "none", args |-> <<>>]
NoMount == [from |-> "none", boot |-> FALSE]
NoImage == [arch |-> "none", version |-> 0]
NoFiles == [menu |-> NoMenu, link |-> "none"]

Snapshot(fault) ==
    [svc |-> svc, menu |-> menu, mnt |-> mnt, images |-> images,
     cfiles |-> cfiles, smf |-> smfState, invalid |-> invalid,
     d |-> [dhcp EXCEPT !.err = "none"], err |-> "none", fault |-> fault]

Become(S) ==
    /\ svc' = S.svc /\ menu' = S.menu /\ mnt' = S.mnt /\ images' = S.images
    /\ cfiles' = S.cfiles /\ smfState' = S.smf /\ invalid' = S.invalid
    /\ dhcp' = S.d
    /\ clean' = (clean /\ S.fault = "none")

Raised(S) == S.err # "none"
Raise(S, e) == [S EXCEPT !.err = e]
(* "try: ... except es": the exception is printed and dropped.             *)
Catch(S, es) == IF S.err \in es THEN [S EXCEPT !.err = "none"] ELSE S

----------------------------------------------------------------------------
(* service_config.py: the .config files *)

IsService(S, n) == S.svc[n].status # "absent"
IsEnabled(S, n) == S.svc[n].status = "on"
AllServiceNames(S) == {n \in Names : IsService(S, n)}
IsAlias(S, n) == S.svc[n].alias # "none"
GetAliasedServices(S, n) ==
    {a \in AllServiceNames(S) : S.svc[a].alias = n}
(* recurse=True; an alias of an alias is refused when it is made, so that  *)
(* two levels reach every dependent.                                       *)
AllAliases(S, n) ==
    GetAliasedServices(S, n)
    \cup UNION {GetAliasedServices(S, a) : a \in GetAliasedServices(S, n)}
GetClients(S, n) == DOMAIN S.svc[n].clients
FindClient(S, c) == {n \in AllServiceNames(S) : c \in GetClients(S, n)}

SetStatus(S, n, status) ==
    IF Raised(S) THEN S ELSE [S EXCEPT !.svc[n].status = status]
AddClientInfo(S, n, c, args) ==
    [S EXCEPT !.svc[n].clients =
        [m \in DOMAIN @ \cup {c} |-> IF m = c THEN args ELSE @[m]]]
RemoveClientFromConfig(S, n, c) ==
    [S EXCEPT !.svc[n].clients = Restrict(@, DOMAIN @ \ {c})]

----------------------------------------------------------------------------
(* ai_smf_service.py *)

(* _set_instance() gives up after MAX_WAIT_TIME seconds.                   *)
SetInstance(S, state) ==
    CASE Raised(S) -> S
      [] ~Raised(S) /\ S.fault = "smf" -> Raise(S, "ServicesError")
      [] ~Raised(S) /\ S.fault # "smf" -> [S EXCEPT !.smf = state]

ServiceEnableAttempt(S) ==
    IF Raised(S) \/ S.smf = "online" THEN S
    ELSE IF S.smf = "maintenance"
         THEN SetInstance(SetInstance(S, "disabled"), "online")
         ELSE SetInstance(S, "online")

(* Faulty variant: the server is put away although a service is enabled.   *)
MaintainAlways(S) ==
    SetInstance(SetInstance(S, "disabled"), "maintenance")
(* check_for_enabled_services() *)
CheckForEnabledServices(S) ==
    IF \/ Raised(S)
       \/ \E n \in Names : IsEnabled(S, n)
       \/ S.smf = "maintenance"
    THEN S
    ELSE SetInstance(SetInstance(S, "disabled"), "maintenance")

(* enable_install_service(): the status first, then the SMF service, then  *)
(* the registration, whose failure takes the status back.                  *)
EnableInstallService(S, n) ==
    LET on == ServiceEnableAttempt(SetStatus(S, n, "on"))
    IN  IF ~Raised(on) /\ S.fault = "register"
        THEN Raise(SetStatus(on, n, "off"), "ServiceCfgError")
        ELSE on

----------------------------------------------------------------------------
(* service.py: images and mounts *)

ImagePath(S, n) ==
    IF IsAlias(S, n) THEN S.svc[S.svc[n].alias].path ELSE S.svc[n].path
ImageOf(S, n) == S.images[ImagePath(S, n)]
ArchOf(S, n) == ImageOf(S, n).arch
Mounted(S, n) == S.mnt[n].from # "none" /\ S.mnt[n].boot

(* mount(): the image, then the boot configuration; what is mounted from   *)
(* the same place already is left alone.                                   *)
Mount(S, n) ==
    LET image == IF S.mnt[n].from = ImagePath(S, n) THEN S
                 ELSE IF S.fault = "mount image" THEN Raise(S, "MountError")
                 ELSE [S EXCEPT !.mnt[n].from = ImagePath(S, n)]
    IN  CASE Raised(image) \/ image.mnt[n].boot -> image
          [] ~Raised(image) /\ ~image.mnt[n].boot ->
                IF S.fault = "mount boot" THEN Raise(image, "MountError")
                ELSE [image EXCEPT !.mnt[n].boot = TRUE]

Unmount(S, n) ==
    CASE Raised(S) -> S
      [] ~Raised(S) /\ S.fault = "unmount" ->
            IF S.mnt[n] = NoMount THEN S ELSE Raise(S, "MultipleUnmountError")
      [] ~Raised(S) /\ S.fault # "unmount" -> [S EXCEPT !.mnt[n] = NoMount]

(* disable() *)
DisableSvc(S, n) ==
    CheckForEnabledServices(Unmount(SetStatus(S, n, "off"), n))

CheckValid(S, n) ==
    IF Raised(S) \/ n \notin S.invalid THEN S
    ELSE LET off == DisableSvc(S, n)
         IN  IF Raised(off) THEN off ELSE Raise(off, "InvalidServiceError")

(* enable(): the reverify property is read back as a string, which is true *)
(* whatever it says, so that every enable validates.                       *)
EnableSvc(S, n) ==
    LET valid == CheckValid(S, n)
        ready == IF Raised(valid) THEN valid ELSE Mount(valid, n)
    IN  EnableInstallService(ready, n)

----------------------------------------------------------------------------
(* grub.py: the menu.lst of a service or a client *)

SetupGrub(n, path, args) ==
    [name |-> n, media |-> path, args |-> IF args = "" THEN <<>> ELSE <<args>>]
UpdateSvcname(m, n) == [m EXCEPT !.name = n]
UpdateImagepath(m, old, new) == IF m.media = old THEN [m EXCEPT !.media = new]
                                ELSE m
(* Faulty variant: the new arguments never replace the old ones.           *)
PrependBootargs(m, old, new) ==
    [m EXCEPT !.args = (IF new = "" THEN <<>> ELSE <<new>>) \o @]
(* update_bootargs(): the old arguments are replaced where they occur,     *)
(* the new ones put in front otherwise.                                    *)
UpdateBootargs(m, old, new) ==
    LET put == IF new = "" THEN <<>> ELSE <<new>>
    IN  IF old # "" /\ Contains(m.args, old)
        THEN [m EXCEPT !.args = put \o Remove(@, old)]
        ELSE [m EXCEPT !.args = put \o @]

----------------------------------------------------------------------------
(* client_control.py *)

RemoveClientDhcpConfig(S, c) ==
    IF ~IsConfigured(S.d) \/ ~HostIsConfigured(S.d, c) THEN S
    ELSE LET d == RemoveHost(S.d, c)
         IN  [S EXCEPT !.d = IF IsOnline(d)
                             THEN DhcpControl(d, "restart", S.fault = "dhcp")
                             ELSE d]

(* Faulty variant: the boot files of the client are left behind.           *)
RemoveClientConfigOnly(S, c) ==
    IF FindClient(S, c) = {} THEN S
    ELSE RemoveClientFromConfig(S, CHOOSE n \in FindClient(S, c) : TRUE, c)
(* remove_client(): the first service that has the client, the DHCP entry  *)
(* of an x86 client, and in any case the files.                            *)
RemoveClient(S, c) ==
    LET n == CHOOSE m \in FindClient(S, c) : TRUE
        gone == IF FindClient(S, c) = {} THEN S
                ELSE LET T == RemoveClientFromConfig(S, n, c)
                     IN  IF ArchOf(S, n) = "i386"
                         THEN RemoveClientDhcpConfig(T, c) ELSE T
    IN  IF Raised(S) THEN S ELSE [gone EXCEPT !.cfiles[c] = NoFiles]

(* setup_x86_client(): a menu.lst that cannot be copied ends it silently.  *)
SetupX86Client(S, n, c, args) ==
    LET m == IF args = "" THEN S.menu[n]
             ELSE UpdateBootargs(S.menu[n], S.svc[n].args, args)
        T == AddClientInfo([S EXCEPT !.cfiles[c] = [menu |-> m, link |-> n]],
                           n, c, args)
        d == AddHost(S.d, c, c)
    IN  CASE S.menu[n] = NoMenu -> S
          [] S.menu[n] # NoMenu /\ ~IsConfigured(S.d) -> T
          [] S.menu[n] # NoMenu /\ IsConfigured(S.d) ->
                IF d.err = "none" /\ IsOnline(d)
                THEN [T EXCEPT !.d = DhcpControl(d, "restart", S.fault = "dhcp")]
                ELSE [T EXCEPT !.d = [d EXCEPT !.err = "none"]]

SetupSparcClient(S, n, c) ==
    AddClientInfo([S EXCEPT !.cfiles[c] = [menu |-> NoMenu, link |-> n]],
                  n, c, "")

CreateNewClient(S, n, c, args) ==
    IF Raised(S) THEN S
    ELSE IF ArchOf(S, n) = "i386" THEN SetupX86Client(S, n, c, args)
         ELSE SetupSparcClient(S, n, c)

(* Apply F to every member of a set, in an order TLC fixes; the code takes *)
(* the order of a dictionary.                                              *)
ForEach(S, set, F(_, _)) ==
    FoldLeft(F, S, SetToSeq(set))

----------------------------------------------------------------------------
(* create-service *)

(* The boot file of the default service of an architecture is added, set   *)
(* or updated.                                                             *)
DefaultBootfile(d, n, arch) ==
    LET file == IF arch = "sparc" THEN "wanboot-cgi" ELSE n
    IN  CASE n \notin DefaultArch -> d
          [] n \in DefaultArch /\ ~ArchClassIsSet(d, arch) ->
                AddArchClass(d, arch, file)
          [] n \in DefaultArch /\ ArchClassIsSet(d, arch) ->
                IF GetBootfileForArch(d, arch) = "none"
                THEN SetBootfile(d, arch, file)
                ELSE UpdateBootfile(d, arch, file)

(* setup_dhcp_server(): the address range, then the boot file.  The server *)
(* is restarted whenever the service is a default one: the code tests the  *)
(* method is_online, not its value.                                        *)
SetupDhcpServer(S, n, arch, range) ==
    LET start == range.count > 0 /\ ~IsOnline(S.d) /\ ~IsConfigured(S.d)
        cmd == CASE range.count > 0 /\ IsOnline(S.d) -> "restart"
                 [] start -> "enable"
                 [] OTHER -> IF n \in DefaultArch THEN "restart" ELSE "none"
        Ranged(d) == IF range.count = 0 THEN d
                     ELSE AddAddressRange(d, range.ip, range.count, TRUE)
        Controlled(d) == IF cmd = "none" \/ d.err # "none" THEN d
                         ELSE DhcpControl(d, cmd, S.fault = "dhcp")
        Rest(d) == IF d.err = "none" /\ IsConfigured(d)
                   THEN Controlled(DefaultBootfile(d, n, arch)) ELSE d
        d4 == Rest(Ranged(IF start THEN InitConfig(S.d) ELSE S.d))
    IN  [S EXCEPT !.d = [d4 EXCEPT !.err = "none"]]

NoRange == [ip |-> [net |-> 0, host |-> 0], count |-> 0]

(* AIService.create(): the properties (status "on" at once), the DHCP      *)
(* server, and the boot menu.                                              *)
CreateAIService(S, n, image, path, alias, args, range) ==
    LET x86 == image.arch = "i386"
        props == [alias |-> alias, status |-> "on",
                  path |-> IF alias = "none" THEN path ELSE "none",
                  args |-> IF x86 THEN args ELSE "", clients |-> << >>]
        T == SetupDhcpServer([S EXCEPT !.svc[n] = props], n, image.arch, range)
    IN  IF Raised(S) THEN S
        ELSE IF alias # "none" /\ image.version < 3
             THEN Raise(S, "UnsupportedAliasError")
             ELSE IF x86 THEN [T EXCEPT !.menu[n] = SetupGrub(n, path, args)]
                  ELSE T

(* get_default_service_name(): the first name that no service has and      *)
(* whose default image path is free.                                       *)
DefaultServiceName(S, specified) ==
    LET free == {i \in DOMAIN AutoNames :
                    /\ ~IsService(S, AutoNames[i])
                    /\ specified \/ S.images[AutoNames[i]] = NoImage}
    IN  IF free = {} THEN "none"
        ELSE AutoNames[CHOOSE i \in free : \A j \in free : i <= j]

(* should_be_default_for_arch() *)
ShouldBeDefaultForArch(S, n) ==
    /\ ImageOf(S, n).version >= 3
    /\ \A m \in AllServiceNames(S) \ {n} :
            ~(ArchOf(S, m) = ArchOf(S, n) /\ ImageOf(S, m).version >= 3)

(* do_create_baseservice(), after parse_options() accepted name and path.  *)
DoCreateBaseservice(S, n, path, image, args, range) ==
    LET img == [S EXCEPT !.images[path] = image]
        made == Catch(EnableSvc(CreateAIService(img, n, image, path, "none",
                                                args, range), n),
                      {"ServicesError"})
        dname == DefaultName(image.arch)
        deflt == CreateAIService(made, dname, image, path, n, args, NoRange)
    IN  IF Raised(made) \/ ~ShouldBeDefaultForArch(made, n) THEN made
        ELSE Catch(EnableSvc(deflt, dname), {"ServicesError"})

(* Faulty variant: the base service may itself be an alias.                *)
AliasOfAny(S, a, n) == IsService(S, n)
(* The checks of do_alias_service() and of parse_options() on the names.   *)
AliasAllowed(S, a, n) ==
    /\ IsService(S, n)
    /\ ~IsAlias(S, n)
    /\ a \in DefaultArch => a = DefaultName(ArchOf(S, n))

CreateService(n, path, image, args, range, fault) ==
    LET S == Snapshot(fault)
    IN  /\ n \notin DefaultArch /\ ~IsService(S, n)
        /\ S.images[path] = NoImage
        /\ Become(DoCreateBaseservice(S, n, path, image, args, range))

CreateAlias(a, n, args, fault) ==
    LET S == Snapshot(fault)
    IN  /\ ~IsService(S, a)
        /\ AliasAllowed(S, a, n)
        /\ Become(Catch(EnableSvc(CreateAIService(S, a, ImageOf(S, n),
                                            ImagePath(S, n), n, args, NoRange),
                            a),
                  {"ServicesError"}))

----------------------------------------------------------------------------
(* delete-service *)

(* Faulty variant: the bootfile entry of a deleted service stays.          *)
KeepDhcpConfiguration(S, n) == S
RemoveDhcpConfiguration(S, n) ==
    LET bootfile == GetBootfileForArch(S.d, "i386")
        d == UnsetBootfile(S.d, "i386")
    IN  IF \/ ~IsConfigured(S.d) \/ ArchOf(S, n) = "sparc" \/ bootfile # n
        THEN S
        ELSE [S EXCEPT !.d = [(IF IsOnline(d)
                               THEN DhcpControl(d, "restart", S.fault = "dhcp")
                               ELSE d) EXCEPT !.err = "none"]]

(* AIService.delete(): disable, then the files, the image of a service     *)
(* that is not an alias among them.                                        *)
DeleteSvc(S, n) ==
    LET off == DisableSvc(S, n)
        noImage == IF IsAlias(S, n) THEN off.images
                   ELSE [off.images EXCEPT ![S.svc[n].path] = NoImage]
    IN  IF Raised(off) THEN off
        ELSE [off EXCEPT !.svc[n] = NoService, !.menu[n] = NoMenu,
                         !.images = noImage, !.invalid = @ \ {n}]

DeleteOne(S, n) ==
    LET bare == ForEach(S, GetClients(S, n), RemoveClient)
        dhcpOff == RemoveDhcpConfiguration(bare, n)
    IN  IF Raised(S) THEN S
        ELSE CheckForEnabledServices(DeleteSvc(dhcpOff, n))

(* delete_specified_service(): the aliases first, with their clients.      *)
DeleteSpecifiedService(S, n) ==
    DeleteOne(ForEach(S, GetAliasedServices(S, n), DeleteOne), n)

DeleteService(n, autoRemove, fault) ==
    LET S == Snapshot(fault)
        dependents == AllAliases(S, n) \cup
                      UNION {GetClients(S, m) : m \in AllAliases(S, n) \cup {n}}
    IN  /\ IsService(S, n)
        /\ autoRemove \/ dependents = {}
        /\ Become(DeleteSpecifiedService(S, n))

----------------------------------------------------------------------------
(* rename-service *)

(* AIService.rename(): the name in the properties and in the menu, then    *)
(* the service directory moves.                                            *)
RenameSvc(S, n, new) ==
    [S EXCEPT !.svc = [@ EXCEPT ![new] = S.svc[n], ![n] = NoService],
              !.menu = [@ EXCEPT ![new] = IF S.menu[n] = NoMenu THEN NoMenu
                                          ELSE UpdateSvcname(S.menu[n], new),
                                 ![n] = NoMenu],
              !.invalid = IF n \in @ THEN (@ \ {n}) \cup {new} ELSE @]

(* do_rename_service(): only mount and image errors of the final enable    *)
(* are caught; the clients come back after it.                             *)
DoRenameService(S, n, new) ==
    LET wasMounted == Mounted(S, n)
        off == IF wasMounted THEN DisableSvc(S, n) ELSE S
        clients == S.svc[n].clients
        bare == ForEach(off, DOMAIN clients, RemoveClient)
        moved == RenameSvc(bare, n, new)
        bases == [moved EXCEPT !.svc =
                    [m \in Names |-> IF moved.svc[m].alias = n
                                     THEN [moved.svc[m] EXCEPT !.alias = new]
                                     ELSE moved.svc[m]]]
        on == IF wasMounted THEN Catch(EnableSvc(bases, new), {"MountError"})
              ELSE bases
        Back(T, c) == CreateNewClient(T, new, c, clients[c])
    IN  IF Raised(off) THEN off ELSE ForEach(on, DOMAIN clients, Back)

RenameService(n, new, fault) ==
    LET S == Snapshot(fault)
    IN  /\ IsService(S, n) /\ ~IsService(S, new)
        /\ n \notin DefaultArch /\ new \notin DefaultArch
        /\ Become(DoRenameService(S, n, new))

----------------------------------------------------------------------------
(* set-service *)

(* update_basesvc(): the menu of the new base becomes the alias's and that *)
(* of its clients, with their own names and boot arguments; an alias whose *)
(* manifests the new image rejects is disabled.                            *)
UpdateBasesvc(S, a, n, rejects) ==
    LET wasMounted == Mounted(S, a)
        base == [S EXCEPT !.svc[a].alias = n,
                          !.invalid = IF rejects THEN @ \cup {a} ELSE @ \ {a}]
        off == IF wasMounted THEN DisableSvc(base, a) ELSE base
        m == UpdateBootargs(UpdateSvcname(S.menu[n], a), S.svc[n].args, S.svc[a].args)
        ClientMenu(c) == IF S.svc[a].clients[c] = "" THEN m
                         ELSE UpdateBootargs(m, S.svc[a].args, S.svc[a].clients[c])
        menus == IF ArchOf(S, a) = "i386"
                 THEN [off EXCEPT !.menu[a] = m,
                        !.cfiles = [c \in Macs |-> IF c \in GetClients(S, a)
                                    THEN [off.cfiles[c] EXCEPT !.menu = ClientMenu(c)]
                                    ELSE off.cfiles[c]]]
                 ELSE off
        checked == Catch(CheckValid(menus, a), {"InvalidServiceError"})
    IN  CASE S.images[S.svc[n].path].version < 3 ->
                Raise(S, "UnsupportedAliasError")
          [] S.images[S.svc[n].path].version >= 3 ->
                IF Raised(off) THEN off
                ELSE IF wasMounted /\ ~Raised(checked) THEN EnableSvc(checked, a)
                ELSE checked

SetAliasOf(a, n, rejects, fault) ==
    LET S == Snapshot(fault)
    IN  /\ IsService(S, a) /\ IsService(S, n) /\ a # n
        /\ IsAlias(S, a) /\ ~IsAlias(S, n) /\ S.svc[a].alias # n
        /\ ArchOf(S, a) = ArchOf(S, n)
        /\ Become(UpdateBasesvc(S, a, n, rejects))

(* Faulty variant: the clients of the aliases keep the old path.           *)
RelocateMenusOwn(S, n, old, new) ==
    [S EXCEPT !.menu = [m \in Names |-> UpdateImagepath(S.menu[m], old, new)],
              !.cfiles = [c \in Macs |->
                            IF c \in GetClients(S, n)
                            THEN [S.cfiles[c] EXCEPT !.menu = UpdateImagepath(@, old, new)]
                            ELSE S.cfiles[c]]]
(* The menu.lst files of the service, of its aliases and of the clients of *)
(* all of them get the new image path.                                     *)
RelocateMenus(S, n, old, new) ==
    LET all == AllAliases(S, n) \cup {n}
        clients == UNION {GetClients(S, m) : m \in all}
    IN  [S EXCEPT !.menu = [m \in Names |-> IF m \in all
                                THEN UpdateImagepath(S.menu[m], old, new)
                                ELSE S.menu[m]],
                  !.cfiles = [c \in Macs |-> IF c \in clients
                                THEN [S.cfiles[c] EXCEPT !.menu = UpdateImagepath(@, old, new)]
                                ELSE S.cfiles[c]]]

(* relocate_imagedir() *)
RelocateImagedir(S, n, new) ==
    LET old == S.svc[n].path
        wasMounted == Mounted(S, n)
        off == IF wasMounted THEN DisableSvc(S, n) ELSE S
        aliases == {a \in AllAliases(S, n) : Mounted(S, a)}
        off2 == ForEach(off, aliases, DisableSvc)
        menus == IF ArchOf(S, n) = "i386" THEN RelocateMenus(off2, n, old, new)
                 ELSE off2
        moved == [menus EXCEPT !.svc[n].path = new,
                               !.images = [@ EXCEPT ![new] = S.images[old],
                                                    ![old] = NoImage]]
        on == IF wasMounted THEN EnableSvc(moved, n) ELSE moved
    IN  IF Raised(off2) THEN off2
        ELSE ForEach(on, aliases, EnableSvc)

SetImagePath(n, new, fault) ==
    LET S == Snapshot(fault)
    IN  /\ IsService(S, n) /\ ~IsAlias(S, n)
        /\ S.images[new] = NoImage
        /\ Become(RelocateImagedir(S, n, new))

----------------------------------------------------------------------------
(* enable, disable, clients and the SMF methods *)

EnableService(n, fault) ==
    LET S == Snapshot(fault)
    IN  IsService(S, n) /\ Become(EnableSvc(S, n))

DisableServiceCmd(n, fault) ==
    LET S == Snapshot(fault)
    IN  IsEnabled(S, n) /\ Become(DisableSvc(S, n))

CreateClient(n, c, args, fault) ==
    LET S == Snapshot(fault)
    IN  /\ IsService(S, n)
        /\ args # "" => ArchOf(S, n) = "i386"
        /\ Become(CreateNewClient(RemoveClient(S, c), n, c, args))

DeleteClient(c, fault) ==
    LET S == Snapshot(fault)
    IN  /\ FindClient(S, c) # {}
        /\ Become(RemoveClient(S, c))

(* mount_enabled_services(): the failures are counted, not raised.         *)
MountEnabledServices(S) ==
    LET One(T, n) == Catch(Mount(T, n), {"MountError"})
    IN  ForEach(S, {n \in Names : IsEnabled(S, n)}, One)

(* The machine restarts: nothing is mounted, the start method mounts what  *)
(* is enabled.  A server in maintenance stays there.                       *)
Reboot(fault) ==
    LET S == [Snapshot(fault) EXCEPT !.mnt = [n \in Names |-> NoMount]]
    IN  Become(IF smfState = "online" THEN MountEnabledServices(S)
                         ELSE S)

(* The administrator corrects the manifests a new image rejected.          *)
FixManifests(n) ==
    /\ n \in invalid
    /\ invalid' = invalid \ {n}
    /\ UNCHANGED <<svc, menu, mnt, images, cfiles, smfState, clean, dhcp>>

----------------------------------------------------------------------------
CONSTANTS ImageKinds,  \* [arch, version] of the images offered
          RangeAsked   \* address ranges given to create-service

IsmInit ==
    /\ svc = [n \in Names |-> NoService]
    /\ menu = [n \in Names |-> NoMenu]
    /\ mnt = [n \in Names |-> NoMount]
    /\ images = [p \in Paths |-> NoImage]
    /\ cfiles = [c \in Macs |-> NoFiles]
    /\ smfState = "disabled" /\ invalid = {}
    /\ clean = TRUE

Commands(faults, bootArgs) ==
    \E fault \in faults :
      \/ \E n \in ToSet(AutoNames) \cup ChosenNames, i \in ImageKinds,
            args \in bootArgs, r \in RangeAsked :
            CreateService(n, n, i, args, r, fault)
      \/ \E i \in ImageKinds, p \in OtherPaths :
            LET n == DefaultServiceName(Snapshot(fault), TRUE)
            IN  n # "none" /\ CreateService(n, p, i, "", NoRange, fault)
      \/ \E a, n \in Names, args \in bootArgs : CreateAlias(a, n, args, fault)
      \/ \E n \in Names, auto \in BOOLEAN : DeleteService(n, auto, fault)
      \/ \E n, new \in Names : RenameService(n, new, fault)
      \/ \E a, n \in Names, rejects \in BOOLEAN : SetAliasOf(a, n, rejects, fault)
      \/ \E n \in Names, p \in OtherPaths : SetImagePath(n, p, fault)
      \/ \E n \in Names : EnableService(n, fault) \/ DisableServiceCmd(n, fault)
      \/ \E n \in Names, c \in Macs, args \in bootArgs : CreateClient(n, c, args, fault)
      \/ \E c \in Macs : DeleteClient(c, fault)
      \/ Reboot(fault)
      \/ \E n \in Names : FixManifests(n)
(* At most one command of a history meets a fault.                         *)
IsmNext == Commands(IF clean THEN Faults ELSE {"none"}, BootArgs)

----------------------------------------------------------------------------
(* Properties *)

Current == Snapshot("none")

(* Whatever sequence of commands ran and whatever failed in them, every    *)
(* service has an image: the base of an alias exists, is not an alias, and *)
(* the image directory is there; and no two base services share an image,  *)
(* since deleting one removes it.                                          *)
ServicesResolve ==
    \A n \in AllServiceNames(Current) :
        /\ IsAlias(Current, n) =>
                LET b == svc[n].alias
                IN  IsService(Current, b) /\ ~IsAlias(Current, b)
        /\ ImageOf(Current, n) # NoImage
        /\ \A m \in AllServiceNames(Current) \ {n} :
                ~IsAlias(Current, n) /\ ~IsAlias(Current, m) => svc[n].path # svc[m].path

(* The menu.lst that an x86 service or client boots names a service that   *)
(* exists and the present image of that service, across renames,           *)
(* relocations and changes of base (a change of base whose unmount fails   *)
(* has renamed the base already and leaves the old menu: clean).           *)
MenusCurrent == clean =>
    /\ \A n \in AllServiceNames(Current) : ArchOf(Current, n) = "i386" =>
            menu[n].name = n /\ menu[n].media = ImagePath(Current, n)
    /\ \A c \in Macs : \A n \in FindClient(Current, c) :
            /\ cfiles[c].link = n
            /\ ArchOf(Current, n) = "i386" =>
                    cfiles[c].menu.name = n /\ cfiles[c].menu.media = ImagePath(Current, n)

(* A client boots with its own arguments, or with those of its service     *)
(* when it has none; a service with its own and not with those of the      *)
(* service it is an alias of.                                              *)
BootArgsOwn == clean =>
    LET Put(a) == IF a = "" THEN <<>> ELSE <<a>>
    IN  \A n \in AllServiceNames(Current) : ArchOf(Current, n) = "i386" =>
            /\ menu[n].args = Put(svc[n].args)
            /\ \A c \in GetClients(Current, n) :
                    cfiles[c].menu.args = Put(IF svc[n].clients[c] = ""
                                              THEN svc[n].args
                                              ELSE svc[n].clients[c])

(* A client belongs to one service; boot files and DHCP host entries of a  *)
(* client exist only while it belongs to one.                              *)
ClientsAreOwned ==
    \A c \in Macs :
        /\ Cardinality(FindClient(Current, c)) <= 1
        /\ FindClient(Current, c) = {} =>
                cfiles[c] = NoFiles /\ ~HostIsConfigured(dhcp, c)

(* Without a fault, the install server is in maintenance exactly when no   *)
(* service is enabled once one has been, an enabled service is mounted     *)
(* from its present image, and a disabled one is not mounted.              *)
ServerFollowsServices ==
    clean =>
        /\ \A n \in Names :
                /\ svc[n].status = "on" => mnt[n].from = ImagePath(Current, n) /\ mnt[n].boot
                /\ svc[n].status # "on" => mnt[n] = NoMount
        /\ smfState = "maintenance" => \A n \in Names : svc[n].status # "on"
        /\ smfState # "online" => \A n \in Names : svc[n].status # "on"

(* The default boot file of the x86 clients in the DHCP configuration is   *)
(* that of a service that exists.                                          *)
DefaultBootfileExists ==
    GetBootfileForArch(dhcp, "i386") \in {"none"} \cup AllServiceNames(Current)

(* "Errors that occur during the various rename stages are printed, but    *)
(* the other stages will continue": a rename that moved the service keeps  *)
(* its clients.                                                            *)
RenameKeepsClients ==
    [][\A n, new \in Names :
        (/\ svc[n] # NoService /\ svc'[n] = NoService
         /\ svc[new] = NoService /\ svc'[new] # NoService) =>
            DOMAIN svc'[new].clients = DOMAIN svc[n].clients]_ismVars

(* Every service has an image of its own, or that of its base, and the     *)
(* install server, its mounts and the services' states agree.              *)
ServicesSound == ServicesResolve /\ ServerFollowsServices

(* What a machine boots from is up to date: menus, links, arguments and    *)
(* the boot file in the DHCP configuration follow every rename,            *)
(* relocation, change of base and deletion.                                *)
BootFilesCurrent == MenusCurrent /\ BootArgsOwn /\ DefaultBootfileExists
============================================================================
