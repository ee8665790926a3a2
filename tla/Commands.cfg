CONSTANTS
  Commands = {"vm action", "vm shutdown", "vm delete", "volume delete",
    "volume action", "key delete", "script delete", "container delete",
    "container action", "batchjob delete", "batchjob action", "container scale",
    "rm", "rm browser", "rb", "abort-uploads", "registry repository",
    "registry image", "registry images", "vm_action",
    "vm create", "volume create", "key add", "script add", "container create",
    "batchjob create", "mb", "copy wizard",
    "upload wizard", "create_vm", "create_volume", "add_ssh_key",
    "vm list", "vm describe", "vm availability", "ssh", "volume list",
    "volume describe", "volume trash", "key list", "script list", "images",
    "instance-types", "locations", "availability", "balance", "status",
    "cost estimate", "cost running", "doctor", "container list",
    "container describe", "container replicas", "batchjob list",
    "batchjob describe", "registry ls", "registry tags", "ls", "ls-uploads",
    "vm_availability", "list_vms", "describe_vm", "list_volumes",
    "list_volumes_in_trash", "list_ssh_keys", "get_ssh_command", "get_balance",
    "estimate_cost", "get_running_costs", "list_locations",
    "list_instance_types", "check_availability", "list_images"}
  Items = {1, 2}
  MaxFaults = 1
  MaxOthers = 1
  MaxBacks = 1
SPECIFICATION Spec
INVARIANTS
  NothingWithoutConsent
  
  ThinkTimeIsFree
PROPERTY EndsInTime
CHECK_DEADLOCK FALSE
