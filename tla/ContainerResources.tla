--------------------------- MODULE ContainerResources ---------------------------
(***************************************************************************)
(* policies/container-resources-policy: the limits and requests of a       *)
(* container are compared with the bounds of the settings, or filled in    *)
(* with their defaults.                                                    *)
(*                                                                         *)
(* A container is [image, limits, requests] with a quantity or None for    *)
(* each resource; a name of an image is a sequence of tokens.  Settings    *)
(* are [cpu, memory, ignoreImages], and 0 is a quantity that is not set.   *)
(***************************************************************************)
EXTENDS PodChecks

Resource == {"cpu", "memory"}

\* ResourceConfiguration, in the order its quantities have to keep
Chain == <<"minRequest", "defaultRequest", "maxRequest", "minLimit", "defaultLimit", "maxLimit">>

allValuesAreZero(config) == \A i \in 1..6 : config[Chain[i]] = 0

\* The constraints between two quantities that are both set
in_order(config) ==
  \A i \in 1..6, j \in 1..6 :
    i < j /\ config[Chain[i]] # 0 /\ config[Chain[j]] # 0 => config[Chain[i]] <= config[Chain[j]]

\* ResourceConfiguration.valid: None, or the error
config_error(config) ==
  CASE config = None -> None
    [] config # None /\ allValuesAreZero(config) /\ ~config.ignoreValues -> "AllValuesAreZeroError"
    [] OTHER -> IF in_order(config) THEN None ELSE "order"

\* Of two resources one may have no value.
resources_settings_valid(settings) ==
  /\ \E r \in Resource : settings[r] # None
  /\ {config_error(settings.cpu), config_error(settings.memory)}
       \in {{None}, {None, "AllValuesAreZeroError"}}

shouldIgnoreValues(config) == config # None /\ (config.ignoreValues \/ allValuesAreZero(config))

--------------------------------------------------------------------------------
missingResourceQuantity(quantities, r) == quantities[r] = None

\* Limits and requests of what has no values in the settings have to be there.
validateContainerCheckPresence(container, settings) ==
  \A r \in Resource : shouldIgnoreValues(settings[r]) =>
    ~missingResourceQuantity(container.limits, r) /\ ~missingResourceQuantity(container.requests, r)

\* validateResourceMin and validateResourceMax
within(quantity, minimum, maximum) ==
  /\ minimum # 0 => quantity >= minimum
  /\ maximum # 0 => quantity <= maximum

validateContainerResourceLimits(container, r, config) ==
  ~missingResourceQuantity(container.limits, r) => within(container.limits[r], config.minLimit, config.maxLimit)

validateContainerResourceRequests(container, r, config) ==
  ~missingResourceQuantity(container.requests, r) =>
    within(container.requests[r], config.minRequest, config.maxRequest)

Constrained(settings, r) == settings[r] # None /\ ~shouldIgnoreValues(settings[r])

validateContainerConstraints(container, settings) ==
  \A r \in {x \in Resource : Constrained(settings, x)} :
    /\ validateContainerResourceLimits(container, r, settings[r])
    /\ validateContainerResourceRequests(container, r, settings[r])

\* The defaults of what is missing; the one of a request whether values are ignored or not
adjusted(container, settings) ==
  [container EXCEPT
     !.limits = [r \in Resource |->
       IF @[r] = None /\ Constrained(settings, r) /\ settings[r].defaultLimit # 0
         THEN settings[r].defaultLimit ELSE @[r]],
     !.requests = [r \in Resource |->
       IF @[r] = None /\ settings[r] # None /\ settings[r].defaultRequest # 0
         THEN settings[r].defaultRequest ELSE @[r]]]

isResourceLimitGreaterThanRequest(container, r) ==
  container.limits[r] # None /\ container.requests[r] # None => container.limits[r] >= container.requests[r]

\* Mutant: a default that is filled in is not compared with what was there.
never_compared(container, settings) ==
  validateContainerCheckPresence(container, settings) /\ validateContainerConstraints(container, settings)

\* The adjusted container is checked once more, the one that stayed is not.
validateAndAdjustContainer(container, settings) ==
  /\ validateContainerCheckPresence(container, settings)
  /\ validateContainerConstraints(container, settings)
  /\ adjusted(container, settings) # container =>
       \A r \in Resource : isResourceLimitGreaterThanRequest(adjusted(container, settings), r)

\* An entry of ignoreImages is [glob, name].
shouldSkipContainer(image, ignoreImages) ==
  \E entry \in ignoreImages : IF entry.glob THEN IsPrefix(entry.name, image) ELSE entry.name = image

\* The containers of the pod, without the init and ephemeral ones
validatePodSpec(settings, containers) ==
  \A c \in containers : shouldSkipContainer(c.image, settings.ignoreImages) \/ validateAndAdjustContainer(c, settings)

adjusted_container(settings, c) ==
  IF shouldSkipContainer(c.image, settings.ignoreImages) THEN c ELSE adjusted(c, settings)

resources_validate(settings, object) ==
  IF Extracted(object) /\ validatePodSpec(settings, object.containers)
    THEN Answer(TRUE, [object EXCEPT !.containers = {adjusted_container(settings, c) : c \in @}])
    ELSE Answer(FALSE, object)
================================================================================
